---- MODULE Spec2Model ----
(***************************************************************************)
(* WLink relay: the instance registry, the Evolution (gateway) webhook     *)
(* dispatcher, the GHL (CRM) outbound relay and the administrative API     *)
(* (create / list+reconcile / QR / logout / delete).                       *)
(*                                                                         *)
(* The registry is the durable store (PrismaService with a Prisma client   *)
(* over the schema of prisma/migrations).  Strings whose characters the    *)
(* code inspects (phone numbers, JIDs) are sequences of one-character      *)
(* strings; an absent / empty string of that kind is the empty sequence.   *)
(* Other absent values are the string Undef.                               *)
(***************************************************************************)
EXTENDS Integers, Sequences, FiniteSets, TLC

VARIABLES instances, nextId, crmContacts, crmMessages, last, calls, tasks, gateway

vars == <<instances, nextId, crmContacts, crmMessages, last, calls, tasks, gateway>>

(***************************************************************************)
(* Bounds                                                                  *)
(***************************************************************************)
MaxCreates == 2
MaxPosts == 2

\* connection.update webhooks in one delivered sequence
MaxEvents == 3

\* changes of an instance's connection state at the gateway
MaxChanges == 3

(***************************************************************************)
(* Domains                                                                 *)
(***************************************************************************)
Undef == "undefined"

InstanceState ==
  {"notAuthorized", "qr_code", "authorized", "yellowCard", "blocked", "starting"}

IdInstances == {"i1", "i2"}
Locations == {"L1", "L2"}

\* the credential a tenant submits with its create requests
TokenOf(locationId) == IF locationId = "L1" THEN "t1" ELSE "t2"

Digits == {"0", "1", "2", "3", "4", "5", "6", "7", "8", "9"}

EmptySettings ==
  [agentUserId |-> Undef, agentPhone |-> <<>>, agentAvatarUrl |-> Undef]

(***************************************************************************)
(* Pure helpers of EvolutionApiService                                     *)
(***************************************************************************)
IsDigit(c) == c \in Digits

normalizeDigits(phone) == SelectSeq(phone, IsDigit)

startsWithPlus(phone) == Len(phone) > 0 /\ phone[1] = "+"

normalizePhoneE164(phone) ==
  IF phone = <<>> THEN <<>>
  ELSE IF startsWithPlus(phone) THEN phone
  ELSE <<"+">> \o normalizeDigits(phone)

(***************************************************************************)
(* PrismaService (instance registry)                                       *)
(***************************************************************************)
getInstance(insts, idInstance) == {r \in insts : r.idInstance = idInstance}

getInstanceById(insts, id) == {r \in insts : r.id = id}

getInstancesByUserId(insts, userId) == {r \in insts : r.userId = userId}

\* an update that takes any text for the state column
updateInstanceStateThrowsAnyText(insts, idInstance, state) ==
  getInstance(insts, idInstance) = {}

\* instance.update throws when no row matches, and the stateInstance column
\* only takes values of the InstanceState enum
updateInstanceStateThrows(insts, idInstance, state) ==
  \/ getInstance(insts, idInstance) = {}
  \/ state \notin InstanceState

\* a write that depends on what is stored: a record once authorized only
\* leaves that state for notAuthorized
updateInstanceStateFromAuthorized(insts, idInstance, state) ==
  {IF r.idInstance = idInstance /\ (r.state # "authorized" \/ state = "notAuthorized")
     THEN [r EXCEPT !.state = state]
     ELSE r : r \in insts}

updateInstanceState(insts, idInstance, state) ==
  {IF r.idInstance = idInstance THEN [r EXCEPT !.state = state] ELSE r : r \in insts}

updateInstanceSettingsThrows(insts, idInstance) ==
  getInstance(insts, idInstance) = {}

updateInstanceSettings(insts, idInstance, settings) ==
  {IF r.idInstance = idInstance THEN [r EXCEPT !.settings = settings] ELSE r : r \in insts}

removeInstanceByIdThrows(insts, id) == getInstanceById(insts, id) = {}

removeInstanceById(insts, id) == {r \in insts : r.id # id}

\* a table without the unique index on idInstance
createInstanceThrowsNever(insts, data) == FALSE

\* instance.create: BIGSERIAL id, unique index on idInstance
createInstanceThrows(insts, data) ==
  getInstance(insts, data.idInstance) # {}

createInstance(insts, id, data) ==
  insts \cup {[id |-> id,
               idInstance |-> data.idInstance,
               userId |-> data.userId,
               apiTokenInstance |-> data.apiTokenInstance,
               state |-> data.state,
               settings |-> data.settings,
               customName |-> data.customName,
               instanceGuid |-> data.instanceGuid]}

\* the name given at creation and the names of rename requests
CustomNames == {"c0", "c1"}

\* an update that reports success when no row matches
updateInstanceCustomNameThrowsNever(insts, idInstance) == FALSE

updateInstanceCustomNameThrows(insts, idInstance) ==
  getInstance(insts, idInstance) = {}

updateInstanceCustomName(insts, idInstance, customName) ==
  {IF r.idInstance = idInstance THEN [r EXCEPT !.customName = customName] ELSE r : r \in insts}

(***************************************************************************)
(* State mapper of the connection.update branch                            *)
(***************************************************************************)
\* the switch without its 'qrcode' case
mappedStatusNoQrcode(state) ==
  CASE state = "open" -> "authorized"
    [] state = "connecting" -> "starting"
    [] state = "close" -> "notAuthorized"
    [] OTHER -> Undef

\* the switch with a default branch that falls back to the disconnected state
mappedStatusDefaultReset(state) ==
  CASE state = "open" -> "authorized"
    [] state = "connecting" -> "starting"
    [] state = "qrcode" -> "qr_code"
    [] OTHER -> "notAuthorized"

\* switch (state) of handleEvolutionWebhook; Undef is the default branch
mappedStatus(state) ==
  CASE state = "open" -> "authorized"
    [] state = "connecting" -> "starting"
    [] state = "close" -> "notAuthorized"
    [] state = "qrcode" -> "qr_code"
    [] OTHER -> Undef

(***************************************************************************)
(* Calls to the two platforms made while handling one request              *)
(***************************************************************************)
Call(api, target, arg, ok) ==
  [api |-> api, target |-> target, arg |-> arg, ok |-> ok]

CallsTo(cs, api) == SelectSeq(cs, LAMBDA c : c.api = api)

TheInstance(insts, idInstance) ==
  CHOOSE r \in getInstance(insts, idInstance) : TRUE


\* the fixed answer res.status(200).send('Webhook received')
Acknowledgement == Call("http.respond", "200", <<>>, TRUE)

acknowledgedAfter(processing) == processing \o <<Acknowledgement>>

\* a webhook handler answers, then processes
acknowledged(processing) == <<Acknowledgement>> \o processing
(***************************************************************************)
(* EvolutionApiService.createEvolutionApiInstanceForUser behind            *)
(* EvolutionApiController.createInstance                                   *)
(***************************************************************************)
\* nested ternary that maps the initial gateway state
initialMappedState(state) ==
  IF state = "open" THEN "authorized"
  ELSE IF state = "connecting" THEN "starting"
  ELSE IF state = "qrcode" THEN "qr_code"
  ELSE "notAuthorized"

\* outcomes of GET /instance/connectionState: a state, no state field, or an error
CreateStatusResults == {"open", "connecting", "close", "qrcode", "refused", Undef, "fail"}

\* statusInfo.instance.instanceId: the gateway's own id of an instance
GuidOf(idInstance) == IF idInstance = "i1" THEN "g1" ELSE "g2"

InstanceGuids == {GuidOf(i) : i \in IdInstances}

credentialsRejectedNever(isValid) == FALSE

\* if (!isValid) throw new HttpException(..., BAD_REQUEST)
credentialsRejected(isValid) == ~isValid

\* a create whose save replaces the row that holds the idInstance
createEvolutionApiInstanceForUserReplacing(insts, id, locationId, idInstance, apiToken, isValid, status) ==
  LET existing == getInstance(insts, idInstance)
      data == [idInstance |-> idInstance,
               userId |-> locationId,
               apiTokenInstance |-> apiToken,
               state |-> initialMappedState(IF status = Undef THEN "close" ELSE status),
               settings |-> EmptySettings,
               customName |-> "c0",
               instanceGuid |-> GuidOf(idInstance)]
      validate == Call("gw.connectionState", idInstance, <<>>, isValid)
      fetch == Call("gw.connectionState", idInstance, <<>>, status # "fail")
      hook == Call("gw.setWebhook", idInstance, <<>>, TRUE)
  IN IF existing # {} /\ TheInstance(insts, idInstance).userId = locationId
       THEN [instances |-> insts, calls |-> <<>>, outcome |-> "CONFLICT", inserted |-> FALSE]
     ELSE IF credentialsRejected(isValid)
       THEN [instances |-> insts, calls |-> <<validate>>, outcome |-> "BAD_REQUEST", inserted |-> FALSE]
     ELSE IF status = "fail"
       THEN [instances |-> insts, calls |-> <<validate, fetch>>, outcome |-> "BAD_REQUEST", inserted |-> FALSE]
     ELSE [instances |-> createInstance(insts \ existing, id, data),
           calls |-> <<validate, fetch, hook>>, outcome |-> "created", inserted |-> TRUE]

createEvolutionApiInstanceForUser(insts, id, locationId, idInstance, apiToken, isValid, status) ==
  LET existing == getInstance(insts, idInstance)
      data == [idInstance |-> idInstance,
               userId |-> locationId,
               apiTokenInstance |-> apiToken,
               state |-> initialMappedState(IF status = Undef THEN "close" ELSE status),
               settings |-> EmptySettings,
               customName |-> "c0",
               instanceGuid |-> GuidOf(idInstance)]
      validate == Call("gw.connectionState", idInstance, <<>>, isValid)
      fetch == Call("gw.connectionState", idInstance, <<>>, status # "fail")
      hook == Call("gw.setWebhook", idInstance, <<>>, TRUE)
  IN IF existing # {} /\ TheInstance(insts, idInstance).userId = locationId
       THEN [instances |-> insts, calls |-> <<>>, outcome |-> "CONFLICT", inserted |-> FALSE]
     ELSE IF credentialsRejected(isValid)
       THEN [instances |-> insts, calls |-> <<validate>>, outcome |-> "BAD_REQUEST", inserted |-> FALSE]
     ELSE IF status = "fail"
       THEN [instances |-> insts, calls |-> <<validate, fetch>>, outcome |-> "BAD_REQUEST", inserted |-> FALSE]
     ELSE IF createInstanceThrows(insts, data)
       THEN [instances |-> insts, calls |-> <<validate, fetch>>, outcome |-> "BAD_REQUEST", inserted |-> TRUE]
     ELSE [instances |-> createInstance(insts, id, data),
           calls |-> <<validate, fetch, hook>>, outcome |-> "created", inserted |-> TRUE]

\* POST /api/instances by a tenant of Locs for an instance of Ids whose
\* gateway status lookup gives one of Statuses
CreateInstanceOf(Locs, Ids, Statuses) ==
  /\ nextId <= MaxCreates
  /\ \E locationId \in Locs, dtoLocationId \in Locations, idInstance \in Ids,
        isValid \in BOOLEAN, status \in Statuses :
       /\ locationId # dtoLocationId => (isValid /\ status = "close" /\ dtoLocationId = "L1")
       /\ ~isValid => status = "close"
       /\ IF locationId # dtoLocationId
            THEN /\ UNCHANGED <<tasks, gateway, instances, nextId, crmContacts, crmMessages>>
                 /\ calls' = <<>>
                 /\ last' = [op |-> "createInstance", locationId |-> locationId,
                             idInstance |-> idInstance, outcome |-> "FORBIDDEN"]
            ELSE LET r == createEvolutionApiInstanceForUser(instances, nextId, locationId,
                            idInstance, TokenOf(locationId), isValid, status)
                 IN /\ instances' = r.instances
                    /\ nextId' = IF r.inserted THEN nextId + 1 ELSE nextId
                    /\ calls' = r.calls
                    /\ last' = [op |-> "createInstance", locationId |-> locationId,
                                idInstance |-> idInstance, outcome |-> r.outcome]
                    /\ UNCHANGED <<tasks, gateway, crmContacts, crmMessages>>

CreateInstance == CreateInstanceOf(Locations, IdInstances, CreateStatusResults)

(***************************************************************************)
(* Evolution webhooks: WebhooksController.handleEvolutionWebhook and       *)
(* EvolutionApiService.handleEvolutionWebhook                              *)
(***************************************************************************)
WebhookStates == {"open", "connecting", "close", "qrcode", "refused"}

Wuids == {<<>>, <<"5", "@">>}

GhlUserIds == {"u1"}

NoData(event, instance) ==
  [event |-> event, instance |-> instance, hasData |-> FALSE, state |-> Undef,
   wuid |-> <<>>, profilePictureUrl |-> Undef]

\* connection.update events without agent information
ConnectionPayloads ==
  [event : {"connection.update"}, instance : IdInstances \cup {Undef},
   hasData : {TRUE}, state : WebhookStates \cup {Undef},
   wuid : {<<>>}, profilePictureUrl : {Undef}]
  \cup {NoData("connection.update", i) : i \in IdInstances \cup {Undef}}

\* connection.update events of one instance that may carry wuid / profilePictureUrl
AgentPayloads ==
  [event : {"connection.update"}, instance : {"i1"},
   hasData : {TRUE}, state : {"open", "close", "refused"},
   wuid : Wuids, profilePictureUrl : {Undef, "a1"}]

OtherPayloads ==
  {NoData(e, i) : e \in {"presence.update", "MESSAGES_UPSERT"}, i \in IdInstances \cup {Undef}}

\* an agent mapping that saves with an upsert: a missing row is inserted from
\* the record the handler holds
tryMapAgentUserByPhoneUpsert(insts, instance, agentPhoneDigits, agentUserId) ==
  IF agentPhoneDigits = <<>> \/ agentUserId = Undef
    THEN insts
  ELSE IF updateInstanceSettingsThrows(insts, instance.idInstance)
    THEN insts \cup {[instance EXCEPT !.settings.agentUserId = agentUserId,
                                      !.settings.agentPhone = agentPhoneDigits]}
    ELSE updateInstanceSettings(insts, instance.idInstance,
           [instance.settings EXCEPT !.agentUserId = agentUserId,
                                     !.agentPhone = agentPhoneDigits])

tryMapAgentUserByPhone(insts, instance, agentPhoneDigits, agentUserId) ==
  IF agentPhoneDigits = <<>> \/ agentUserId = Undef
       \/ updateInstanceSettingsThrows(insts, instance.idInstance)
    THEN insts
    ELSE updateInstanceSettings(insts, instance.idInstance,
           [instance.settings EXCEPT !.agentUserId = agentUserId,
                                     !.agentPhone = agentPhoneDigits])

\* a connection.update branch whose final settings write starts from the
\* record as the agent mapping left it
connectionUpdateRereadSettings(insts, p, agentUserId) ==
  LET mapped == mappedStatus(p.state)
  IN IF mapped = Undef
       THEN [instances |-> insts, calls |-> <<>>, outcome |-> "unknownState"]
     ELSE IF updateInstanceStateThrows(insts, p.instance, mapped)
       THEN [instances |-> insts, calls |-> <<>>, outcome |-> "error"]
     ELSE
       LET i1 == updateInstanceState(insts, p.instance, mapped)
           updated == TheInstance(i1, p.instance)
           digits == normalizeDigits(p.wuid)
           i2 == IF digits # <<>>
                   THEN tryMapAgentUserByPhone(i1, updated, digits, agentUserId)
                   ELSE i1
           reread == TheInstance(i2, p.instance).settings
           s1 == IF digits # <<>> THEN [reread EXCEPT !.agentPhone = digits] ELSE reread
           s2 == IF p.profilePictureUrl # Undef
                   THEN [s1 EXCEPT !.agentAvatarUrl = p.profilePictureUrl]
                   ELSE s1
           needUpdateSettings == digits # <<>> \/ p.profilePictureUrl # Undef
           i3 == IF needUpdateSettings /\ ~updateInstanceSettingsThrows(i2, p.instance)
                   THEN updateInstanceSettings(i2, p.instance, s2)
                   ELSE i2
       IN [instances |-> i3,
           calls |-> IF digits # <<>>
                       THEN <<Call("crm.listUsers", updated.userId, digits, agentUserId # Undef)>>
                       ELSE <<>>,
           outcome |-> "updated"]

\* the connection.update branch of EvolutionApiService.handleEvolutionWebhook
connectionUpdate(insts, p, agentUserId) ==
  LET mapped == mappedStatus(p.state)
  IN IF mapped = Undef
       THEN [instances |-> insts, calls |-> <<>>, outcome |-> "unknownState"]
     ELSE IF updateInstanceStateThrows(insts, p.instance, mapped)
       THEN [instances |-> insts, calls |-> <<>>, outcome |-> "error"]
     ELSE
       LET i1 == updateInstanceState(insts, p.instance, mapped)
           updated == TheInstance(i1, p.instance)
           digits == normalizeDigits(p.wuid)
           s1 == IF digits # <<>>
                   THEN [updated.settings EXCEPT !.agentPhone = digits]
                   ELSE updated.settings
           i2 == IF digits # <<>>
                   THEN tryMapAgentUserByPhone(i1, updated, digits, agentUserId)
                   ELSE i1
           s2 == IF p.profilePictureUrl # Undef
                   THEN [s1 EXCEPT !.agentAvatarUrl = p.profilePictureUrl]
                   ELSE s1
           needUpdateSettings == digits # <<>> \/ p.profilePictureUrl # Undef
           i3 == IF needUpdateSettings /\ ~updateInstanceSettingsThrows(i2, p.instance)
                   THEN updateInstanceSettings(i2, p.instance, s2)
                   ELSE i2
       IN [instances |-> i3,
           calls |-> IF digits # <<>>
                       THEN <<Call("crm.listUsers", updated.userId, digits, agentUserId # Undef)>>
                       ELSE <<>>,
           outcome |-> "updated"]

\* a dispatcher that reads the state as  data?.state || 'close'
handleEvolutionWebhookDefaultClose(insts, p, agentUserId) ==
  IF p.instance = Undef
    THEN [instances |-> insts, calls |-> <<>>, outcome |-> "noInstance"]
  ELSE IF p.event = "connection.update"
    THEN connectionUpdate(insts, [p EXCEPT !.state = IF @ = Undef THEN "close" ELSE @],
                          agentUserId)
  ELSE [instances |-> insts, calls |-> <<>>, outcome |-> "noHandler"]

\* WebhooksController.handleEvolutionWebhook after the 200 acknowledgement
handleEvolutionWebhook(insts, p, agentUserId) ==
  IF p.instance = Undef
    THEN [instances |-> insts, calls |-> <<>>, outcome |-> "noInstance"]
  ELSE IF p.event = "connection.update"
    THEN IF ~p.hasData \/ p.state = Undef
           THEN [instances |-> insts, calls |-> <<>>, outcome |-> "missingState"]
           ELSE connectionUpdate(insts, p, agentUserId)
  ELSE [instances |-> insts, calls |-> <<>>, outcome |-> "noHandler"]

\* POST /webhooks/evolution with a body of Payloads; AgentIds are the results
\* the CRM user search can give
EvolutionWebhookOf(Payloads, AgentIds) ==
  \E p \in Payloads, agentUserId \in AgentIds :
    /\ normalizeDigits(p.wuid) = <<>> => agentUserId = Undef
    /\ LET r == handleEvolutionWebhook(instances, p, agentUserId)
       IN /\ instances' = r.instances
          /\ calls' = acknowledged(r.calls)
          /\ last' = [op |-> "evolutionWebhook", payload |-> p, outcome |-> r.outcome,
                      redelivery |-> (last.op = "evolutionWebhook" /\ last.payload = p)]
          /\ UNCHANGED <<tasks, gateway, nextId, crmContacts, crmMessages>>

EvolutionWebhook == EvolutionWebhookOf(ConnectionPayloads \cup OtherPayloads, {Undef})

(***************************************************************************)
(* DynamicInstanceGuard of POST /webhooks/evolution.  The guard is imported *)
(* by the controller from ./guards/dynamic-instance.guard; what it does is  *)
(* taken from its description and from the cases of its test: the body's    *)
(* instance is looked up with getInstance and the Authorization header must *)
(* be 'Bearer ' followed by the stored apiTokenInstance.                    *)
(***************************************************************************)
AuthSchemes == {"Bearer", "Basic"}

\* the Authorization header of a request
NoHeader == [scheme |-> Undef, token |-> Undef]

AuthHeaders ==
  {NoHeader} \cup [scheme : AuthSchemes, token : {TokenOf(l) : l \in Locations}]

canActivateAnyToken(insts, instanceName, header) ==
  /\ getInstance(insts, instanceName) # {}
  /\ header # NoHeader
  /\ header.scheme = "Bearer"

canActivate(insts, instanceName, header) ==
  /\ getInstance(insts, instanceName) # {}
  /\ header # NoHeader
  /\ header.scheme = "Bearer"
  /\ header.token = TheInstance(insts, instanceName).apiTokenInstance

\* a request to POST /webhooks/evolution: the guard, then the handler
GuardedWebhookOf(Payloads, Headers) ==
  \E p \in Payloads, header \in Headers :
    IF canActivate(instances, p.instance, header)
      THEN LET r == handleEvolutionWebhook(instances, p, Undef)
           IN /\ instances' = r.instances
              /\ calls' = acknowledged(r.calls)
              /\ last' = [op |-> "evolutionWebhook", payload |-> p, outcome |-> r.outcome,
                          redelivery |-> (last.op = "evolutionWebhook" /\ last.payload = p),
                          authorization |-> header]
              /\ UNCHANGED <<tasks, gateway, nextId, crmContacts, crmMessages>>
      ELSE /\ calls' = <<>>
           /\ last' = [op |-> "webhookRejected", payload |-> p, outcome |-> "Unauthorized",
                       redelivery |-> FALSE, authorization |-> header]
           /\ UNCHANGED <<tasks, gateway, instances, nextId, crmContacts, crmMessages>>

(***************************************************************************)
(* EvolutionApiController.getInstances: listing with reconciliation        *)
(***************************************************************************)
\* outcomes of the per-instance status lookup: the top-level state of the
\* response, no such field, or an error
PollResults == {"open", "close", "authorized", "notAuthorized", Undef, "fail"}

\* body of the instances.map callback: the state returned for the instance
\* and whether updateInstanceState was called and took effect
refreshOne(instance, status) ==
  IF status = "fail" \/ status = Undef \/ status = instance.state
    THEN [state |-> instance.state, attempted |-> FALSE, written |-> FALSE]
  ELSE IF updateInstanceStateThrows({instance}, instance.idInstance, status)
    THEN [state |-> instance.state, attempted |-> TRUE, written |-> FALSE]
  ELSE [state |-> status, attempted |-> TRUE, written |-> TRUE]

\* a listing whose callback has no try/catch: one rejected lookup rejects
\* Promise.all and the request fails, the other callbacks still run
getInstancesNoCatch(insts, locationId, lookup) ==
  LET owned == getInstancesByUserId(insts, locationId)
      refreshed(r) == refreshOne(r, lookup[r.idInstance])
      rejected == \E r \in owned : lookup[r.idInstance] = "fail"
  IN [instances |-> {IF r \in owned /\ refreshed(r).written
                       THEN [r EXCEPT !.state = refreshed(r).state]
                       ELSE r : r \in insts},
      response |-> IF rejected THEN {}
                   ELSE {[idInstance |-> r.idInstance, state |-> refreshed(r).state] : r \in owned},
      attempted |-> {r.idInstance : r \in {o \in owned : refreshed(o).attempted}},
      calls |-> <<>>]

getInstances(insts, locationId, lookup) ==
  LET owned == getInstancesByUserId(insts, locationId)
      refreshed(r) == refreshOne(r, lookup[r.idInstance])
  IN [instances |-> {IF r \in owned /\ refreshed(r).written
                       THEN [r EXCEPT !.state = refreshed(r).state]
                       ELSE r : r \in insts},
      response |-> {[idInstance |-> r.idInstance, state |-> refreshed(r).state] : r \in owned},
      attempted |-> {r.idInstance : r \in {o \in owned : refreshed(o).attempted}},
      calls |-> <<>>]

GetInstances ==
  \E locationId \in Locations, lookup \in [IdInstances -> PollResults] :
    /\ \A i \in IdInstances :
         getInstance(getInstancesByUserId(instances, locationId), i) = {} => lookup[i] = Undef
    /\ LET r == getInstances(instances, locationId, lookup)
       IN /\ instances' = r.instances
          /\ calls' = r.calls
          /\ last' = [op |-> "getInstances", locationId |-> locationId, lookup |-> lookup,
                      response |-> r.response, attempted |-> r.attempted, outcome |-> "ok"]
          /\ UNCHANGED <<tasks, gateway, nextId, crmContacts, crmMessages>>

(***************************************************************************)
(* EvolutionApiController.deleteInstance                                   *)
(***************************************************************************)
RequestIds == 1..MaxCreates

\* a delete without the try/catch around the gateway call
deleteInstanceNoCatch(insts, id, locationId, gatewayOk) ==
  LET found == getInstanceById(insts, id)
      instanceData == CHOOSE r \in found : TRUE
      remote == Call("gw.delete", instanceData.idInstance, <<>>, gatewayOk)
      local == Call("db.removeInstanceById", instanceData.idInstance, <<>>, TRUE)
  IN IF found = {} \/ instanceData.userId # locationId
       THEN [instances |-> insts, calls |-> <<>>, outcome |-> "Unauthorized"]
     ELSE IF ~gatewayOk \/ removeInstanceByIdThrows(insts, id)
       THEN [instances |-> insts, calls |-> <<remote>>, outcome |-> "error"]
     ELSE [instances |-> removeInstanceById(insts, id),
           calls |-> <<remote, local>>, outcome |-> "deleted"]

deleteInstance(insts, id, locationId, gatewayOk) ==
  LET found == getInstanceById(insts, id)
      instanceData == CHOOSE r \in found : TRUE
      remote == Call("gw.delete", instanceData.idInstance, <<>>, gatewayOk)
      local == Call("db.removeInstanceById", instanceData.idInstance, <<>>, TRUE)
  IN IF found = {} \/ instanceData.userId # locationId
       THEN [instances |-> insts, calls |-> <<>>, outcome |-> "Unauthorized"]
     ELSE IF removeInstanceByIdThrows(insts, id)
       THEN [instances |-> insts, calls |-> <<remote>>, outcome |-> "error"]
     ELSE [instances |-> removeInstanceById(insts, id),
           calls |-> <<remote, local>>, outcome |-> "deleted"]

DeleteInstance ==
  \E id \in RequestIds, locationId \in Locations, gatewayOk \in BOOLEAN :
    LET r == deleteInstance(instances, id, locationId, gatewayOk)
    IN /\ r.outcome = "Unauthorized" => gatewayOk
       /\ instances' = r.instances
       /\ calls' = r.calls
       /\ last' = [op |-> "deleteInstance", id |-> id, locationId |-> locationId,
                   gatewayOk |-> gatewayOk, outcome |-> r.outcome]
       /\ UNCHANGED <<tasks, gateway, nextId, crmContacts, crmMessages>>

(***************************************************************************)
(* EvolutionApiController.logoutInstance                                   *)
(***************************************************************************)
\* a logout that stores 'notAuthorized' before it asks the gateway
logoutInstanceStateFirst(insts, id, locationId, gatewayOk) ==
  LET found == getInstanceById(insts, id)
      inst == CHOOSE r \in found : TRUE
  IN IF found = {} \/ inst.userId # locationId
       THEN [instances |-> insts, calls |-> <<>>, outcome |-> "Unauthorized"]
     ELSE IF updateInstanceStateThrows(insts, inst.idInstance, "notAuthorized")
       THEN [instances |-> insts, calls |-> <<>>, outcome |-> "error"]
     ELSE [instances |-> updateInstanceState(insts, inst.idInstance, "notAuthorized"),
           calls |-> <<Call("gw.logout", inst.idInstance, <<>>, gatewayOk)>>,
           outcome |-> IF gatewayOk THEN "ok" ELSE "error"]

logoutInstance(insts, id, locationId, gatewayOk) ==
  LET found == getInstanceById(insts, id)
      inst == CHOOSE r \in found : TRUE
  IN IF found = {} \/ inst.userId # locationId
       THEN [instances |-> insts, calls |-> <<>>, outcome |-> "Unauthorized"]
     ELSE IF ~gatewayOk \/ updateInstanceStateThrows(insts, inst.idInstance, "notAuthorized")
       THEN [instances |-> insts,
             calls |-> <<Call("gw.logout", inst.idInstance, <<>>, gatewayOk)>>,
             outcome |-> "error"]
     ELSE [instances |-> updateInstanceState(insts, inst.idInstance, "notAuthorized"),
           calls |-> <<Call("gw.logout", inst.idInstance, <<>>, gatewayOk)>>,
           outcome |-> "ok"]

LogoutInstance ==
  \E id \in RequestIds, locationId \in Locations, gatewayOk \in BOOLEAN :
    LET r == logoutInstance(instances, id, locationId, gatewayOk)
    IN /\ r.outcome = "Unauthorized" => gatewayOk
       /\ instances' = r.instances
       /\ calls' = r.calls
       /\ last' = [op |-> "logoutInstance", id |-> id, locationId |-> locationId,
                   gatewayOk |-> gatewayOk, outcome |-> r.outcome]
       /\ UNCHANGED <<tasks, gateway, nextId, crmContacts, crmMessages>>

(***************************************************************************)
(* EvolutionApiController.updateInstance: rename.  writeOk: the registry   *)
(* accepts the update of the name.                                         *)
(***************************************************************************)
updateInstanceAnyOwner(insts, id, locationId, customName, writeOk) ==
  LET found == getInstanceById(insts, id)
      instanceData == CHOOSE r \in found : TRUE
      write == Call("db.updateInstanceCustomName", instanceData.idInstance, <<customName>>, writeOk)
  IN IF found = {}
       THEN [instances |-> insts, calls |-> <<>>, outcome |-> "FORBIDDEN"]
     ELSE IF ~writeOk
       THEN [instances |-> insts, calls |-> <<write>>, outcome |-> "error"]
     ELSE [instances |-> updateInstanceCustomName(insts, instanceData.idInstance, customName),
           calls |-> <<write>>, outcome |-> "ok"]

updateInstance(insts, id, locationId, customName, writeOk) ==
  LET found == getInstanceById(insts, id)
      instanceData == CHOOSE r \in found : TRUE
      write == Call("db.updateInstanceCustomName", instanceData.idInstance, <<customName>>, writeOk)
  IN IF found = {} \/ instanceData.userId # locationId
       THEN [instances |-> insts, calls |-> <<>>, outcome |-> "FORBIDDEN"]
     ELSE IF ~writeOk
       THEN [instances |-> insts, calls |-> <<write>>, outcome |-> "error"]
     ELSE [instances |-> updateInstanceCustomName(insts, instanceData.idInstance, customName),
           calls |-> <<write>>, outcome |-> "ok"]

UpdateInstance ==
  \E id \in RequestIds, locationId \in Locations, customName \in CustomNames :
    LET owned == \E r \in getInstanceById(instances, id) : r.userId = locationId
    IN
  \E writeOk \in IF owned THEN BOOLEAN ELSE {TRUE} :
    LET r == updateInstance(instances, id, locationId, customName, writeOk)
    IN /\ instances' = r.instances
       /\ calls' = r.calls
       /\ last' = [op |-> "updateInstance", id |-> id, locationId |-> locationId,
                   customName |-> customName, outcome |-> r.outcome]
       /\ UNCHANGED <<tasks, gateway, nextId, crmContacts, crmMessages>>

(***************************************************************************)
(* QrController.getQrCode                                                  *)
(***************************************************************************)
\* EvolutionService.getQrCode gives a QR image, a pairing code, or throws
QrResults == {"qr", "code", "fail"}

getQrCode(insts, id, locationId, qr) ==
  LET found == getInstanceById(insts, id)
      instance == CHOOSE r \in found : TRUE
  IN IF found = {} \/ instance.userId # locationId
       THEN [instances |-> insts, calls |-> <<>>, outcome |-> "Unauthorized"]
     ELSE IF updateInstanceStateThrows(insts, instance.idInstance, "qr_code")
       THEN [instances |-> insts, calls |-> <<>>, outcome |-> "error"]
     ELSE [instances |-> updateInstanceState(insts, instance.idInstance, "qr_code"),
           calls |-> <<Call("gw.connect", instance.idInstance, <<>>, qr # "fail")>>,
           outcome |-> IF qr = "fail" THEN "error" ELSE qr]

GetQrCode ==
  \E id \in RequestIds, locationId \in Locations, qr \in QrResults :
    LET r == getQrCode(instances, id, locationId, qr)
    IN /\ r.outcome = "Unauthorized" => qr = "qr"
       /\ instances' = r.instances
       /\ calls' = r.calls
       /\ last' = [op |-> "getQrCode", id |-> id, locationId |-> locationId,
                   qr |-> qr, outcome |-> r.outcome]
       /\ UNCHANGED <<tasks, gateway, nextId, crmContacts, crmMessages>>

(***************************************************************************)
(* Outbound relay: WebhooksController.handleGhlWebhook and                 *)
(* EvolutionApiService.handlePlatformWebhook                               *)
(***************************************************************************)
GhlPhones == {<<>>, <<"+", "1", "5">>, <<"1", "-", "5">>}

MessageIds == {"m1", Undef}

\* what the contact lookup yields: the instance named by the contact's
\* whatsapp-instance- tag, no contact or no such tag, or a thrown error
LookupResults == IdInstances \cup {Undef, "error"}

\* how the CRM answers a status update: PUT accepted ("ok"), PUT refused and
\* POST accepted ("putFails"), both refused ("bothFail"), PUT refused for a
\* missing provider scope ("forbidden"), or no usable HTTP client
\* ("noClient": getHttpClient throws).  Requests draw from the three answers
\* that differ in what the caller sees or in whether the report lands; with
\* no provider id configured the update is skipped after getHttpClient
\* ("notConfigured").
StatusResults == {"ok", "bothFail", "noClient"}

\* a retry policy with one more digits-only attempt after the E.164 one
sendWhatsAppMessageWithRetryThrice(instance, toPhone, firstOk, secondOk) ==
  LET digits == normalizeDigits(toPhone)
      first == Call("gw.send", instance.idInstance, digits, firstOk)
      second == Call("gw.send", instance.idInstance, normalizePhoneE164(toPhone), secondOk)
      third == Call("gw.send", instance.idInstance, digits, FALSE)
  IN IF firstOk THEN [calls |-> <<first>>, error |-> "none"]
     ELSE IF secondOk THEN [calls |-> <<first, second>>, error |-> "none"]
     ELSE [calls |-> <<first, second, third>>, error |-> "IntegrationError"]

sendWhatsAppMessageWithRetry(instance, toPhone, firstOk, secondOk) ==
  LET digits == normalizeDigits(toPhone)
      first == Call("gw.send", instance.idInstance, digits, firstOk)
      second == Call("gw.send", instance.idInstance, normalizePhoneE164(toPhone), secondOk)
  IN IF firstOk THEN [calls |-> <<first>>, error |-> "none"]
     ELSE IF secondOk THEN [calls |-> <<first, second>>, error |-> "none"]
     ELSE [calls |-> <<first, second>>, error |-> "IntegrationError"]

updateGhlMessageStatus(locationId, status, result) ==
  LET put(ok) == Call("crm.putStatus", locationId, <<status>>, ok)
      post(ok) == Call("crm.postStatus", locationId, <<status>>, ok)
  IN CASE result = "noClient" -> [calls |-> <<>>, error |-> "HttpException"]
       [] result = "notConfigured" -> [calls |-> <<>>, error |-> "none"]
       [] result = "ok" -> [calls |-> <<put(TRUE)>>, error |-> "none"]
       [] result = "forbidden" -> [calls |-> <<put(FALSE)>>, error |-> "none"]
       [] result = "putFails" -> [calls |-> <<put(FALSE), post(TRUE)>>, error |-> "none"]
       [] OTHER -> [calls |-> <<put(FALSE), post(FALSE)>>, error |-> "none"]

\* a relay that leaves the state check to the gateway
handlePlatformWebhookNoStateCheck(insts, w, instanceName, firstOk, secondOk, delivered) ==
  LET found == getInstance(insts, instanceName)
      instance == CHOOSE r \in found : TRUE
      sent == sendWhatsAppMessageWithRetry(instance, w.phone, firstOk, secondOk)
      report == updateGhlMessageStatus(w.locationId, "delivered", delivered)
  IN IF found = {}
       THEN [calls |-> <<>>, error |-> "NotFoundError"]
     ELSE IF sent.error # "none"
       THEN [calls |-> sent.calls, error |-> sent.error]
     ELSE [calls |-> sent.calls \o report.calls, error |-> report.error]

handlePlatformWebhook(insts, w, instanceName, firstOk, secondOk, delivered) ==
  LET found == getInstance(insts, instanceName)
      instance == CHOOSE r \in found : TRUE
      sent == sendWhatsAppMessageWithRetry(instance, w.phone, firstOk, secondOk)
      report == updateGhlMessageStatus(w.locationId, "delivered", delivered)
  IN IF found = {}
       THEN [calls |-> <<>>, error |-> "NotFoundError"]
     ELSE IF instance.state # "authorized"
       THEN [calls |-> <<>>, error |-> "IntegrationError"]
     ELSE IF sent.error # "none"
       THEN [calls |-> sent.calls, error |-> sent.error]
     ELSE [calls |-> sent.calls \o report.calls, error |-> report.error]

\* the catch block of handleGhlWebhook: report 'failed' when the location and
\* the message id are known; an error of that report leaves the handler
ghlFailure(w, callsSoFar, error, instanceId, failed) ==
  LET report == updateGhlMessageStatus(w.locationId, "failed", failed)
  IN IF w.locationId = Undef \/ w.messageId = Undef
       THEN [calls |-> callsSoFar, outcome |-> "caught", error |-> error, instanceId |-> instanceId]
     ELSE [calls |-> callsSoFar \o report.calls,
           outcome |-> IF report.error = "none" THEN "caught" ELSE "escaped",
           error |-> error, instanceId |-> instanceId]

LookupCall(locationId, phone, ok) == Call("crm.lookupContact", locationId, phone, ok)

\* the conversation provider ids of a CRM webhook and of the configuration
\* (GHL_CONVERSATION_PROVIDER_ID); Undef is a missing one
ProviderIds == {"p1", "p2", Undef}

ConfiguredProviderIds == {"p1", Undef}

providerMatchesWhenPresent(w, configured) ==
  w.conversationProviderId = Undef \/ w.conversationProviderId = configured

\* ghlWebhook.conversationProviderId === configService.get(...)
providerMatches(w, configured) == w.conversationProviderId = configured

\* handleGhlWebhook after the 200 acknowledgement.  w is the webhook body,
\* configured the configured provider id, lookup the result of the contact
\* lookup, fallback the first instance of the unordered
\* getInstancesByUserId result
handleGhlWebhook(insts, w, configured, lookup, fallback, firstOk, secondOk, delivered, failed) ==
  LET instanceId == IF lookup \notin {Undef, "error"} THEN lookup ELSE fallback
      relayed == handlePlatformWebhook(insts, w, instanceId, firstOk, secondOk, delivered)
      looked == <<LookupCall(w.locationId, w.phone, lookup # "error")>>
  IN IF ~providerMatches(w, configured)
       THEN [calls |-> <<>>, outcome |-> "ignored", error |-> "none", instanceId |-> Undef]
     ELSE IF w.locationId = Undef
       THEN ghlFailure(w, <<>>, "BadRequestException", Undef, failed)
     ELSE IF lookup = "error"
       THEN ghlFailure(w, looked, "LookupError", Undef, failed)
     ELSE IF instanceId = Undef
       THEN [calls |-> looked, outcome |-> "noInstances", error |-> "none", instanceId |-> Undef]
     ELSE IF ~(w.type = "SMS" /\ w.hasContent)
       THEN [calls |-> looked, outcome |-> "skipped", error |-> "none", instanceId |-> instanceId]
     ELSE IF relayed.error # "none"
       THEN ghlFailure(w, looked \o relayed.calls, relayed.error, instanceId, failed)
     ELSE [calls |-> looked \o relayed.calls, outcome |-> "relayed", error |-> "none",
           instanceId |-> instanceId]

GhlWebhookBody(providerId, locationId, phone, type, hasContent, messageId) ==
  [conversationProviderId |-> providerId, locationId |-> locationId, phone |-> phone,
   type |-> type, hasContent |-> hasContent, messageId |-> messageId]

\* POST /webhooks/ghl.  An input is drawn from its full set only where the
\* handler reads it.
GhlWebhookOf(Ids, ConfiguredIds) ==
  \E providerId \in Ids, configured \in ConfiguredIds :
    LET providerOk == providerId = configured
        Answers == IF configured = Undef THEN {"notConfigured", "noClient"} ELSE StatusResults
    IN
  \E locationId \in IF providerOk THEN Locations \cup {Undef} ELSE {"L1"} :
  \E lookup \in IF providerOk /\ locationId # Undef THEN LookupResults ELSE {Undef} :
  \E fallback \in IF providerOk /\ lookup = Undef
                    THEN IF getInstancesByUserId(instances, locationId) = {}
                           THEN {Undef}
                           ELSE {r.idInstance : r \in getInstancesByUserId(instances, locationId)}
                    ELSE {Undef} :
    LET instanceId == IF lookup \notin {Undef, "error"} THEN lookup ELSE fallback
        resolved == providerOk /\ locationId # Undef /\ lookup # "error" /\ instanceId # Undef
    IN
  \E type \in IF resolved THEN {"SMS", "Email"} ELSE {"SMS"} :
  \E hasContent \in IF resolved /\ type = "SMS" THEN BOOLEAN ELSE {TRUE} :
    LET relay == resolved /\ type = "SMS" /\ hasContent
        sendable == relay /\ \E r \in getInstance(instances, instanceId) : r.state = "authorized"
    IN
  \E phone \in IF sendable THEN GhlPhones ELSE {<<"+", "1", "5">>} :
  \E firstOk \in IF sendable THEN BOOLEAN ELSE {TRUE} :
  \E secondOk \in IF sendable /\ ~firstOk THEN BOOLEAN ELSE {TRUE} :
  \E delivered \in IF sendable /\ (firstOk \/ secondOk) THEN Answers ELSE {"ok"} :
    LET attempt == handleGhlWebhook(instances,
                     GhlWebhookBody(providerId, locationId, phone, type, hasContent, "m1"),
                     configured, lookup, fallback, firstOk, secondOk, delivered, "ok")
    IN
  \E messageId \in IF attempt.error # "none" /\ locationId # Undef THEN MessageIds ELSE {"m1"} :
  \E failed \in IF attempt.error # "none" /\ locationId # Undef /\ messageId # Undef
                  THEN Answers ELSE {"ok"} :
    LET w == GhlWebhookBody(providerId, locationId, phone, type, hasContent, messageId)
        r == handleGhlWebhook(instances, w, configured, lookup, fallback, firstOk, secondOk,
                              delivered, failed)
    IN /\ calls' = acknowledged(r.calls)
       /\ last' = [op |-> "ghlWebhook", locationId |-> locationId, phone |-> phone,
                   providerId |-> providerId, configured |-> configured,
                   instanceId |-> r.instanceId, outcome |-> r.outcome, error |-> r.error]
       /\ UNCHANGED <<tasks, gateway, instances, nextId, crmContacts, crmMessages>>

GhlWebhook == GhlWebhookOf({"p1", "p2"}, {"p1"})

(***************************************************************************)
(* Inbound relay: the messages.upsert branch of handleEvolutionWebhook      *)
(* with findOrCreateGhlContactForInstance and postInboundMessageToGhl.      *)
(* crmContacts and crmMessages are what the CRM holds: an upsert keeps one  *)
(* contact per location and phone, a POST /conversations/messages adds one  *)
(* message per accepted call.                                               *)
(***************************************************************************)
RemoteJids == {<<>>, <<"7", "@">>}

KeyIds == {"k1", "k2"}

PushNames == {Undef, "n1"}

SenderJids == {<<>>, <<"5", "@">>}

\* how the CRM answers the message creation: accepted at once, refused with
\* 400/404 and accepted after the conversation was created, refused for
\* good, or no usable HTTP client
PostResults == {"ok", "conversationRetry", "fail", "noClient"}

MessageStatuses == {Undef, "SERVER_ACK"}

\* message texts, as sequences of characters: empty, plain, padded, blank
Texts == {<<>>, <<"h">>, <<" ", "h", " ">>, <<" ">>}

\* data.message.extendedTextMessage: absent, or an object with or without
\* the member text
NoExtended == [present |-> FALSE, hasText |-> FALSE, text |-> <<>>]

ExtendedTexts ==
  {NoExtended, [present |-> TRUE, hasText |-> FALSE, text |-> <<>>]}
    \cup [present : {TRUE}, hasText : {TRUE}, text : Texts]

\* data.message: absent, or an object whose members conversation and
\* extendedTextMessage may be missing (an image message has neither)
NoMessage == [present |-> FALSE, conversation |-> <<>>, extendedTextMessage |-> NoExtended]

Messages ==
  {NoMessage} \cup [present : {TRUE}, conversation : Texts, extendedTextMessage : ExtendedTexts]

PlainMessage == [present |-> TRUE, conversation |-> <<"h">>, extendedTextMessage |-> NoExtended]

MessagePayloadsOf(Msgs) ==
  [event : {"messages.upsert"}, instance : IdInstances \cup {Undef}, remoteJid : RemoteJids,
   fromMe : BOOLEAN, keyId : KeyIds, pushName : PushNames, sender : SenderJids,
   status : MessageStatuses, instanceId : InstanceGuids \cup {Undef}, message : Msgs]

MessagePayloads == MessagePayloadsOf({PlainMessage})

\* remoteJid.split('@')[0]
RECURSIVE splitAt(_)
splitAt(jid) ==
  IF jid = <<>> \/ Head(jid) = "@" THEN <<>> ELSE <<Head(jid)>> \o splitAt(Tail(jid))

\* phone.startsWith('+') ? phone : `+${phone}`
formattedPhone(phone) == IF startsWithPlus(phone) THEN phone ELSE <<"+">> \o phone

contactsByPhone(contacts, locationId, phone) ==
  {c \in contacts : c.locationId = locationId /\ c.phone = formattedPhone(phone)}

\* POST /contacts/upsert with the payload the service builds: the name is
\* sent only when it may replace the stored one
findOrCreateGhlContactForInstance(contacts, instance, phone, name, preserveExistingName) ==
  LET existing == contactsByPhone(contacts, instance.userId, phone)
      sendsName == ~preserveExistingName /\ name # Undef
  IN IF existing = {}
       THEN contacts \cup {[locationId |-> instance.userId, phone |-> formattedPhone(phone),
                            name |-> IF sendsName THEN name ELSE Undef]}
       ELSE {IF c \in existing /\ sendsName THEN [c EXCEPT !.name = name] ELSE c : c \in contacts}

\* the payload variants tried in turn after a 422 answer
PayloadVariants == <<"typeEnv", "whatsappChannel", "noProvider", "WHATSAPP", "SMS", "minimal">>

\* a 422 fallback that goes on with the next variant after an accepted one
variantAttemptsAll(message, accepted) ==
  [k \in 1..Len(PayloadVariants) |->
     [api |-> "crm.postMessage", target |-> message.locationId, arg |-> message.contact,
      ok |-> k >= accepted, variant |-> PayloadVariants[k]]]

\* the create calls of the 422 fallback when variant number accepted is the
\* first the CRM takes (Len(PayloadVariants) + 1: it takes none)
variantAttempts(message, accepted) ==
  [k \in 1..(IF accepted <= Len(PayloadVariants) THEN accepted ELSE Len(PayloadVariants)) |->
     [api |-> "crm.postMessage", target |-> message.locationId, arg |-> message.contact,
      ok |-> k = accepted, variant |-> PayloadVariants[k]]]

\* post: how the CRM answers.  "ok": the first create is accepted;
\* "conversationRetry", "conversationRefused", "retryFails": 400/404, then the
\* conversation and the second create are accepted, the conversation is
\* refused, the second create is refused; <<"422", k>>-style answers are
\* "variant1" .. "variant6" (variant k is the first accepted) and
\* "variantsFail"; "noClient": getHttpClient throws; anything else: the first
\* create is refused with another status
VariantAnswers ==
  [k \in 1..Len(PayloadVariants) |->
     <<"variant1", "variant2", "variant3", "variant4", "variant5", "variant6">>[k]]

postInboundMessageToGhl(messages, message, post) ==
  LET create(ok) == Call("crm.postMessage", message.locationId, message.contact, ok)
      convo(ok) == Call("crm.postConversation", message.locationId, message.contact, ok)
      isVariant == \E k \in 1..Len(PayloadVariants) : VariantAnswers[k] = post
      accepted == CHOOSE k \in 1..Len(PayloadVariants) : VariantAnswers[k] = post
  IN CASE post = "noClient" -> [messages |-> messages, calls |-> <<>>, error |-> "HttpException"]
       [] post = "ok" ->
            [messages |-> Append(messages, message), calls |-> <<create(TRUE)>>, error |-> "none"]
       [] post = "conversationRetry" ->
            [messages |-> Append(messages, message),
             calls |-> <<create(FALSE), convo(TRUE), create(TRUE)>>, error |-> "none"]
       [] post = "conversationRefused" ->
            [messages |-> messages, calls |-> <<create(FALSE), convo(FALSE)>>,
             error |-> "IntegrationError"]
       [] post = "retryFails" ->
            [messages |-> messages, calls |-> <<create(FALSE), convo(TRUE), create(FALSE)>>,
             error |-> "IntegrationError"]
       [] isVariant ->
            [messages |-> Append(messages, message),
             calls |-> <<create(FALSE)>> \o variantAttempts(message, accepted),
             error |-> "none"]
       [] post = "variantsFail" ->
            [messages |-> messages,
             calls |-> <<create(FALSE)>>
                         \o variantAttempts(message, Len(PayloadVariants) + 1),
             error |-> "IntegrationError"]
       [] OTHER ->
            [messages |-> messages, calls |-> <<create(FALSE)>>, error |-> "IntegrationError"]

\* how the CRM answers GET /contacts/lookup: a contact, an empty result
\* list, a 404 or 400 response, or any other failure (no usable HTTP client
\* included)
LookupAnswers == {"found", "empty", "notFound", "error"}

FallbackAnswers == {"found", "empty", "fail"}

\* the lookup queries the '+'-form first; the digits-only form is queried
\* only after a 404 or 400 answer and only when the phone has digits
getGhlContactByPhone(locationId, phone, first, second) ==
  LET digits == normalizeDigits(phone)
      plusForm == IF startsWithPlus(phone) THEN phone ELSE <<"+">> \o digits
      q1(ok) == LookupCall(locationId, plusForm, ok)
      q2(ok) == LookupCall(locationId, digits, ok)
  IN CASE first = "found" -> [calls |-> <<q1(TRUE)>>, result |-> "contact"]
       [] first = "empty" -> [calls |-> <<q1(TRUE)>>, result |-> "absent"]
       [] first = "notFound" ->
            IF digits = <<>> THEN [calls |-> <<q1(FALSE)>>, result |-> "absent"]
            ELSE [calls |-> <<q1(FALSE), q2(second # "fail")>>,
                  result |-> IF second = "found" THEN "contact" ELSE "absent"]
       [] OTHER -> [calls |-> <<q1(FALSE)>>, result |-> "throw"]

TagOfNothing(instanceName) == <<"whatsapp-instance">>

\* `whatsapp-instance-${instance.instanceName}`
TagOf(instanceName) == <<"whatsapp-instance", instanceName>>

\* the request of POST /contacts/upsert: name is Undef when the payload has
\* no name field
UpsertCall(instance, phone, name, preserveExistingName, ok) ==
  [api |-> "crm.upsertContact", target |-> instance.userId, arg |-> formattedPhone(phone),
   ok |-> ok, name |-> IF ~preserveExistingName /\ name # Undef THEN name ELSE Undef,
   tag |-> TagOf(instance.idInstance)]

\* the transformer's direction: fromMe, or a SERVER_ACK delivery status
RECURSIVE trimStart(_)
trimStart(s) == IF s # <<>> /\ Head(s) = " " THEN trimStart(Tail(s)) ELSE s

RECURSIVE trimEnd(_)
trimEnd(s) ==
  IF s # <<>> /\ s[Len(s)] = " " THEN trimEnd(SubSeq(s, 1, Len(s) - 1)) ELSE s

\* String.prototype.trim
trim(s) == trimEnd(trimStart(s))

UnsupportedMessageType == <<"Unsupported message type">>

\* messageText before .trim(): the conversation when truthy, else the member
\* text of extendedTextMessage when that object is there (undefined when it
\* has no text), else the placeholder
messageText(m) ==
  IF m.conversation # <<>> THEN [defined |-> TRUE, text |-> m.conversation]
  ELSE IF m.extendedTextMessage.present
    THEN [defined |-> m.extendedTextMessage.hasText, text |-> m.extendedTextMessage.text]
  ELSE [defined |-> TRUE, text |-> UnsupportedMessageType]

\* throws: messageText.trim() on undefined raises a TypeError
toPlatformMessage(p) ==
  [direction |-> IF p.fromMe \/ p.status = "SERVER_ACK" THEN "outbound" ELSE "inbound",
   throws |-> ~messageText(p.message).defined,
   message |-> IF messageText(p.message).defined THEN trim(messageText(p.message).text)
               ELSE <<>>]

relayedDirectionOfTransformer(p) == toPlatformMessage(p).direction

\* the transformed message after
\* transformedMsg.direction = isFromAgent ? 'outbound' : 'inbound'
relayedDirection(p) ==
  [toPlatformMessage(p) EXCEPT !.direction = IF p.fromMe THEN "outbound" ELSE "inbound"].direction

resolveContactAlwaysNamed(p) == FALSE

\* the preserveExistingName argument of the contact upsert
resolveContactPreservesName(p) == p.fromMe

\* the messages.upsert branch.  first, second: the CRM's answers to the
\* contact lookups; upsertOk: the contact upsert succeeds; agentUserId: the
\* CRM user whose phone matches the agent's digits, if any.  source is the
\* gateway message a CRM message was created from; the request to the CRM
\* does not carry it.
\* the registry's lookup by the gateway's own instance id
findInstanceById(insts, instanceId) == {r \in insts : r.instanceGuid = instanceId}

resolveInstanceByNameOnly(insts, p) == getInstance(insts, p.instance)

\* prisma.getInstance(instanceName), then findInstanceById(data.instanceId)
resolveInstance(insts, p) ==
  IF getInstance(insts, p.instance) # {} THEN getInstance(insts, p.instance)
  ELSE IF p.instanceId # Undef THEN findInstanceById(insts, p.instanceId)
  ELSE {}

missingRemoteJidNever(p) == FALSE

\* if (!payload.data?.key?.remoteJid) return
missingRemoteJid(p) == p.remoteJid = <<>>

messagesUpsert(insts, contacts, messages, p, first, second, upsertOk, agentUserId, post) ==
  LET found == resolveInstance(insts, p)
      instance == CHOOSE r \in found : TRUE
      contactPhone == splitAt(p.remoteJid)
      senderName == IF p.pushName # Undef THEN p.pushName ELSE "WhatsApp User"
      lookup == IF p.fromMe
                  THEN getGhlContactByPhone(instance.userId, contactPhone, first, second)
                  ELSE [calls |-> <<>>, result |-> "absent"]
      upserts == lookup.result = "absent"
      name == IF p.fromMe THEN "WhatsApp User" ELSE senderName
      preserve == resolveContactPreservesName(p)
      upsertCalls == IF upserts
                       THEN <<UpsertCall(instance, contactPhone, name, preserve, upsertOk)>>
                       ELSE <<>>
      contacts1 ==
        IF upserts /\ upsertOk
          THEN findOrCreateGhlContactForInstance(contacts, instance, contactPhone, name, preserve)
          ELSE contacts
      resolved == lookup.result = "contact" \/ (upserts /\ upsertOk)
      senderDigits == normalizeDigits(splitAt(p.sender))
      agentDigits == IF senderDigits # <<>> THEN senderDigits
                     ELSE normalizeDigits(instance.settings.agentPhone)
      mapsAgent == p.fromMe /\ agentDigits # <<>> /\ agentUserId # Undef
      insts1 == IF mapsAgent /\ ~updateInstanceSettingsThrows(insts, instance.idInstance)
                  THEN updateInstanceSettings(insts, instance.idInstance,
                         [instance.settings EXCEPT !.agentUserId = agentUserId,
                                                   !.agentPhone = agentDigits])
                  ELSE insts
      message == [locationId |-> instance.userId,
                  contact |-> formattedPhone(contactPhone),
                  direction |-> relayedDirection(p),
                  message |-> toPlatformMessage(p).message,
                  userId |-> IF mapsAgent THEN agentUserId
                             ELSE IF p.fromMe THEN instance.settings.agentUserId ELSE Undef,
                  source |-> <<p.instance, p.keyId>>]
      posted == postInboundMessageToGhl(messages, message, post)
  IN IF p.instance = Undef
       THEN [instances |-> insts, contacts |-> contacts, messages |-> messages,
             calls |-> <<>>, lookup |-> "none", outcome |-> "noInstance", error |-> "none"]
     ELSE IF missingRemoteJid(p)
       THEN [instances |-> insts, contacts |-> contacts, messages |-> messages,
             calls |-> <<>>, lookup |-> "none", outcome |-> "missingRemoteJid", error |-> "none"]
     ELSE IF found = {}
       THEN [instances |-> insts, contacts |-> contacts, messages |-> messages,
             calls |-> <<>>, lookup |-> "none", outcome |-> "unknownInstance", error |-> "none"]
     ELSE IF ~resolved
       THEN [instances |-> insts, contacts |-> contacts1, messages |-> messages,
             calls |-> lookup.calls \o upsertCalls,
             lookup |-> IF p.fromMe THEN lookup.result ELSE "none", outcome |-> "error",
             error |-> IF lookup.result = "error" THEN "LookupError" ELSE "IntegrationError"]
     ELSE IF toPlatformMessage(p).throws
       THEN [instances |-> insts, contacts |-> contacts1, messages |-> messages,
             calls |-> lookup.calls \o upsertCalls,
             lookup |-> IF p.fromMe THEN lookup.result ELSE "none", outcome |-> "typeError",
             error |-> "TypeError"]
     ELSE [instances |-> insts1, contacts |-> contacts1, messages |-> posted.messages,
           calls |-> lookup.calls \o upsertCalls \o posted.calls,
           lookup |-> IF p.fromMe THEN lookup.result ELSE "none",
           outcome |-> IF posted.error = "none" THEN "posted" ELSE "error",
           error |-> posted.error]

\* the fields no branch reads are fixed: nothing but the event name and the
\* instance is read of an event without remoteJid or for an unknown
\* instance, sender only of an agent's message, pushName only of a
\* customer's message
MessageEvents ==
  {p \in MessagePayloads :
     /\ (p.remoteJid = <<>> \/ p.instance = "i2") =>
          (~p.fromMe /\ p.keyId = "k1" /\ p.pushName = Undef /\ p.status = Undef)
     /\ ~p.fromMe => p.sender = <<>>
     /\ p.fromMe => p.pushName = Undef
     /\ (p.remoteJid = <<>> => p.instance = "i1")
     /\ p.instanceId = Undef
     /\ p.instance # Undef}

\* POST /webhooks/evolution with a messages.upsert body of Payloads, the CRM
\* answering the contact lookups with Lookups and Fallbacks, the user lookup
\* with AgentIds and the message creation with Posts
MessagesUpsertOf(Payloads, Lookups, Fallbacks, AgentIds, Posts) ==
  /\ Len(crmMessages) < MaxPosts
  /\ \E p \in Payloads :
       LET reaches == /\ p.instance # Undef /\ p.remoteJid # <<>>
                      /\ resolveInstance(instances, p) # {}
           owner == (CHOOSE r \in resolveInstance(instances, p) : TRUE).userId
           known == reaches /\ contactsByPhone(crmContacts, owner, splitAt(p.remoteJid)) # {}
       IN
     \E first \in IF reaches /\ p.fromMe
                    THEN IF known THEN Lookups ELSE Lookups \ {"found"}
                    ELSE {"empty"} :
     \E second \in IF first = "notFound"
                     THEN IF known THEN Fallbacks ELSE Fallbacks \ {"found"}
                     ELSE {"empty"} :
       LET absent == reaches /\ (~p.fromMe \/ first = "empty"
                                 \/ (first = "notFound" /\ second # "found"))
       IN
     \E upsertOk \in IF absent THEN BOOLEAN ELSE {TRUE} :
       LET resolved == reaches /\ upsertOk /\ first # "error"
       IN
     \E agentUserId \in IF p.fromMe /\ resolved THEN AgentIds ELSE {Undef} :
     \E post \in IF resolved THEN Posts ELSE {"ok"} :
       LET r == messagesUpsert(instances, crmContacts, crmMessages, p, first, second,
                               upsertOk, agentUserId, post)
       IN /\ instances' = r.instances
          /\ crmContacts' = r.contacts
          /\ crmMessages' = r.messages
          /\ calls' = acknowledged(r.calls)
          /\ last' = [op |-> "messagesUpsert", payload |-> p, outcome |-> r.outcome,
                      lookup |-> r.lookup, error |-> r.error,
                      redelivery |-> (last.op = "messagesUpsert" /\ last.payload = p)]
          /\ UNCHANGED <<tasks, gateway, nextId>>

MessagesUpsert ==
  MessagesUpsertOf({p \in MessageEvents : p.status = Undef}, {"found", "empty"}, {"empty"},
                   GhlUserIds \cup {Undef}, PostResults)

(***************************************************************************)
(* Specifications                                                          *)
(***************************************************************************)
\* a handler that is not running: the connection.update handler, the
\* messages.upsert handler and the listing request.  A running handler keeps
\* its position (pc) and the values it holds across its awaits.
IdleConnection ==
  [pc |-> "idle", payload |-> NoData(Undef, Undef), updated |-> {}, agentUserId |-> Undef]

NoMessageEvent ==
  [event |-> Undef, instance |-> Undef, remoteJid |-> <<>>, fromMe |-> FALSE, keyId |-> "k1",
   pushName |-> Undef, sender |-> <<>>, status |-> Undef, instanceId |-> Undef,
   message |-> NoMessage]

IdleMessage ==
  [pc |-> "idle", payload |-> NoMessageEvent, instance |-> {}, agentUserId |-> Undef]

IdleListing == [pc |-> "idle", locationId |-> Undef, instances |-> {}, polled |-> Undef]

IdleTasks == [connection |-> IdleConnection, message |-> IdleMessage, listing |-> IdleListing]

\* the gateway's own connection state of each instance, and the
\* connection.update webhooks it has sent that are still on their way, in the
\* order sent
GatewayStates == {"open", "close"}

InitialGateway == [state |-> [i \in IdInstances |-> "close"], signals |-> <<>>, changes |-> 0]

Init ==
  /\ instances = {}
  /\ nextId = 1
  /\ crmContacts = {}
  /\ crmMessages = <<>>
  /\ last = [op |-> "init"]
  /\ calls = <<>>
  /\ tasks = IdleTasks
  /\ gateway = InitialGateway

\* the registry under the administrative API and connection webhooks
Next ==
  \/ CreateInstance
  \/ EvolutionWebhook
  \/ GetInstances
  \/ DeleteInstance
  \/ LogoutInstance
  \/ GetQrCode

Spec == Init /\ [][Next]_vars

\* one tenant's instance under connection webhooks that carry the agent's
\* number and avatar
AgentCreate == CreateInstanceOf({"L1"}, {"i1"}, {"open", "close"})

AgentWebhook == EvolutionWebhookOf(AgentPayloads, GhlUserIds \cup {Undef})

NextAgent == AgentCreate \/ AgentWebhook \/ DeleteInstance

SpecAgent == Init /\ [][NextAgent]_vars

\* the outbound relay over a registry whose instances connect and disconnect
RelayPayloads ==
  [event : {"connection.update"}, instance : IdInstances, hasData : {TRUE},
   state : {"open", "close"}, wuid : {<<>>}, profilePictureUrl : {Undef}]

RelayCreate == CreateInstanceOf(Locations, IdInstances, {"open", "close"})

RelayConnection == EvolutionWebhookOf(RelayPayloads, {Undef})

NextRelay == RelayCreate \/ RelayConnection \/ GhlWebhook

SpecRelay == Init /\ [][NextRelay]_vars

\* CRM webhooks under every pair of received and configured provider id
ProviderCreate == CreateInstanceOf({"L1"}, {"i1"}, {"open", "close"})

ProviderWebhook == GhlWebhookOf(ProviderIds, ConfiguredProviderIds)

NextProvider == ProviderCreate \/ ProviderWebhook

SpecProvider == Init /\ [][NextProvider]_vars

\* gateway webhooks from their arrival at the guard
GuardPayloads == {p \in ConnectionPayloads : p.hasData /\ p.state \in {"open", "close"}}

GuardCreate == CreateInstanceOf(Locations, IdInstances, {"open"})

GuardedWebhook == GuardedWebhookOf(GuardPayloads, AuthHeaders)

NextGuard == GuardCreate \/ GuardedWebhook

SpecGuard == Init /\ [][NextGuard]_vars

\* the administrative API of two tenants
AdminCreate == CreateInstanceOf(Locations, IdInstances, {"open"})

NextAdmin ==
  \/ AdminCreate
  \/ GetInstances
  \/ DeleteInstance
  \/ LogoutInstance
  \/ UpdateInstance
  \/ GetQrCode

SpecAdmin == Init /\ [][NextAdmin]_vars

\* gateway messages relayed to the CRM
InboundCreate == CreateInstanceOf({"L1"}, {"i1"}, {"open"})

NextInbound == InboundCreate \/ MessagesUpsert

SpecInbound == Init /\ [][NextInbound]_vars

\* contact resolution of relayed gateway messages
ContactCreate == CreateInstanceOf({"L1"}, {"i1"}, {"open"})

ContactUpsert ==
  MessagesUpsertOf({p \in MessageEvents : p.keyId = "k1" /\ p.sender = <<>>},
                   LookupAnswers, FallbackAnswers, {Undef}, {"ok", "conversationRetry", "fail"})

\* message events that name the instance by either of its two ids
ResolveEvents ==
  {p \in MessagePayloads :
     /\ p.remoteJid # <<>> /\ ~p.fromMe /\ p.keyId = "k1" /\ p.pushName = Undef
     /\ p.sender = <<>> /\ p.status = Undef /\ p.instance # Undef}

ResolveCreate == CreateInstanceOf({"L1"}, {"i1"}, {"open"})

ResolveUpsert ==
  MessagesUpsertOf(ResolveEvents, {"empty"}, {"empty"}, {Undef}, PostResults)

NextResolve == ResolveCreate \/ DeleteInstance \/ ResolveUpsert

SpecResolve == Init /\ [][NextResolve]_vars

\* gateway webhooks the handler has nothing to do for, among those it has
DiscardEvents ==
  {p \in MessagePayloads :
     /\ p.instance \in {"i1", Undef} /\ ~p.fromMe /\ p.keyId = "k1"
     /\ p.sender = <<>> /\ p.status = Undef
     /\ (p.instanceId # Undef => (p.instance = Undef /\ p.instanceId = "g1"))}

DiscardCreate == CreateInstanceOf({"L1"}, {"i1"}, {"close"})

DiscardWebhook == EvolutionWebhookOf(ConnectionPayloads \cup OtherPayloads, {Undef})

DiscardUpsert == MessagesUpsertOf(DiscardEvents, {"empty"}, {"empty"}, {Undef}, {"ok", "fail"})

NextDiscard == DiscardCreate \/ DiscardWebhook \/ DiscardUpsert

SpecDiscard == Init /\ [][NextDiscard]_vars

NextContact == ContactCreate \/ ContactUpsert

SpecContact == Init /\ [][NextContact]_vars

(***************************************************************************)
(* Properties                                                              *)
(***************************************************************************)
IsConnectionUpdate(l) ==
  l.op = "evolutionWebhook" /\ l.payload.event = "connection.update"

StateOf(insts, idInstance) == TheInstance(insts, idInstance).state

\* C1: after a connection.update webhook for a known instance whose state is
\* in the mapping table, the stored state is the table's row: open ->
\* authorized, connecting -> starting, close -> notAuthorized, qrcode ->
\* qr_code, whatever the state was before.
C1_MappingTable ==
  [][(IsConnectionUpdate(last') /\ getInstance(instances, last'.payload.instance) # {})
       => /\ getInstance(instances', last'.payload.instance) # {}
          /\ LET stored == StateOf(instances', last'.payload.instance)
                 state == last'.payload.state
             IN /\ state = "open" => stored = "authorized"
                /\ state = "connecting" => stored = "starting"
                /\ state = "close" => stored = "notAuthorized"
                /\ state = "qrcode" => stored = "qr_code"]_vars

C1_Witness ==
  /\ IsConnectionUpdate(last)
  /\ last.payload.state = "qrcode"
  /\ getInstance(instances, last.payload.instance) # {}
  /\ StateOf(instances, last.payload.instance) = "qr_code"

C3_StoredStateInEnum ==
  \A r \in instances :
    r.state \in {"notAuthorized", "qr_code", "starting", "authorized", "yellowCard", "blocked"}

C3_Witness ==
  /\ last.op = "getInstances"
  /\ \E r \in instances :
       /\ r.idInstance \in last.attempted
       /\ last.lookup[r.idInstance] = "open"
       /\ r.state = "notAuthorized"

\* C6: a connection.update webhook with data absent or data.state undefined
\* is discarded: no registry write, no CRM or gateway call, and the handler
\* ends in a discard, not in an exception.
C6_MissingStateDiscarded ==
  [][(IsConnectionUpdate(last') /\ (~last'.payload.hasData \/ last'.payload.state = Undef))
       => /\ instances' = instances
          /\ calls' = <<Acknowledgement>>
          /\ last'.outcome \in {"noInstance", "missingState"}]_vars

C6_Witness ==
  /\ IsConnectionUpdate(last)
  /\ last.payload.hasData
  /\ last.payload.state = Undef
  /\ last.outcome = "missingState"
  /\ getInstance(instances, last.payload.instance) # {}
  /\ StateOf(instances, last.payload.instance) = "authorized"

\* C9: when the owner of an instance requests its deletion the record is
\* gone from the registry when the request completes, whether the gateway
\* delete succeeded or failed, and the gateway delete is attempted before
\* the local removal.
C9_DeleteAlwaysRemoves ==
  [][(last'.op = "deleteInstance"
        /\ \E r \in instances : r.id = last'.id /\ r.userId = last'.locationId)
       => LET r == CHOOSE x \in instances : x.id = last'.id
          IN /\ getInstanceById(instances', last'.id) = {}
             /\ getInstance(instances', r.idInstance) = {}
             /\ Len(calls') = 2
             /\ calls'[1].api = "gw.delete" /\ calls'[1].target = r.idInstance
             /\ calls'[1].ok = last'.gatewayOk
             /\ calls'[2].api = "db.removeInstanceById"]_vars

C9_Witness ==
  /\ last.op = "deleteInstance"
  /\ last.outcome = "deleted"
  /\ ~last.gatewayOk
  /\ getInstanceById(instances, last.id) = {}

SendsOf(cs) == CallsTo(cs, "gw.send")

ReportsOf(cs, status) ==
  SelectSeq(cs, LAMBDA c : c.api \in {"crm.putStatus", "crm.postStatus"} /\ c.arg = <<status>>)

\* C5: delivering the same connection.update webhook twice in a row for a
\* known instance leaves the registry after the second delivery exactly as it
\* was after the first: same stored state, no other field changed.
C5_RedeliveryChangesNothing ==
  [][(IsConnectionUpdate(last') /\ last'.redelivery
        /\ getInstance(instances, last'.payload.instance) # {})
       => instances' = instances]_vars

C5_Witness ==
  /\ IsConnectionUpdate(last)
  /\ last.redelivery
  /\ last.outcome = "updated"
  /\ last.payload.state = "open"
  /\ last.payload.wuid # <<>>
  /\ last.payload.profilePictureUrl # Undef
  /\ \E r \in getInstance(instances, last.payload.instance) :
       r.state = "authorized" /\ r.settings.agentPhone = <<"5">>

\* C7: for one CRM-originated outbound message the relay makes at most two
\* gateway sends: the first with the digits-only number; a second only if the
\* first failed, with the '+'-prefixed number of the same digits; if the
\* second fails too an IntegrationError is raised and there is no third; a
\* first success makes no second.
C7_AtMostTwoSends ==
  last.op = "ghlWebhook" =>
    LET sends == SendsOf(calls)
    IN /\ Len(sends) <= 2
       /\ Len(sends) >= 1 =>
            /\ sends[1].arg = SelectSeq(last.phone, IsDigit)
            /\ sends[1].ok => Len(sends) = 1
            /\ ~sends[1].ok => Len(sends) = 2
       /\ Len(sends) = 2 =>
            /\ SelectSeq(sends[2].arg, IsDigit) = SelectSeq(last.phone, IsDigit)
            /\ last.phone # <<>> => sends[2].arg[1] = "+"
            /\ ~sends[2].ok => last.error = "IntegrationError"

C7_Witness ==
  /\ last.op = "ghlWebhook"
  /\ last.phone = <<"1", "-", "5">>
  /\ Len(SendsOf(calls)) = 2
  /\ SendsOf(calls)[1].arg = <<"1", "5">>
  /\ SendsOf(calls)[2].arg = <<"+", "1", "5">>
  /\ ~SendsOf(calls)[2].ok
  /\ last.error = "IntegrationError"

\* C8: the relay sends nothing to the gateway unless the resolved instance
\* exists and its stored state is authorized: an unknown instance fails with
\* NotFoundError, an instance in another state with a domain error
\* (IntegrationError), both with no gateway send and no 'delivered' report.
C8_SendOnlyWhenAuthorized ==
  [][(last'.op = "ghlWebhook" /\ last'.outcome \in {"relayed", "caught", "escaped"}
        /\ last'.instanceId # Undef)
       => LET found == getInstance(instances, last'.instanceId)
              quiet == SendsOf(calls') = <<>> /\ ReportsOf(calls', "delivered") = <<>>
          IN /\ found = {} => (last'.error = "NotFoundError" /\ quiet)
             /\ (found # {} /\ \A r \in found : r.state # "authorized") =>
                  (last'.error = "IntegrationError" /\ quiet)
             /\ ~quiet => \E r \in found : r.state = "authorized"]_vars

C8_Witness ==
  /\ last.op = "ghlWebhook"
  /\ last.error = "IntegrationError"
  /\ SendsOf(calls) = <<>>
  /\ ReportsOf(calls, "delivered") = <<>>
  /\ ReportsOf(calls, "failed") # <<>>
  /\ \E r \in getInstance(instances, last.instanceId) : r.state = "notAuthorized"

\* C4: processing the same messages.upsert webhook twice leaves the CRM as
\* processing it once does: the message of one instance, remote party and
\* message key is present once, and the contact exists once.
C4_DuplicateAppliedOnce ==
  /\ \A i, j \in 1..Len(crmMessages) :
       (crmMessages[i].source = crmMessages[j].source
          /\ crmMessages[i].contact = crmMessages[j].contact) => i = j
  /\ \A c, d \in crmContacts :
       (c.locationId = d.locationId /\ c.phone = d.phone) => c = d

\* C11: after a listing in which the status lookup of an instance succeeded
\* with a gateway connection state, the stored state of that instance and
\* the state returned for it both equal the internal state the mapping table
\* gives for the reported connection state.
C11_ListingStoresMappedState ==
  last.op = "getInstances" =>
    \A r \in getInstancesByUserId(instances, last.locationId) :
      LET status == last.lookup[r.idInstance]
      IN status \in {"open", "connecting", "close", "qrcode"} =>
           /\ r.state = mappedStatus(status)
           /\ \E x \in last.response :
                x.idInstance = r.idInstance /\ x.state = mappedStatus(status)

UpsertsOf(cs) == CallsTo(cs, "crm.upsertContact")

PostsOf(cs) == CallsTo(cs, "crm.postMessage")

LookupsOf(cs) == CallsTo(cs, "crm.lookupContact")

IsMessagesUpsert(l) == l.op = "messagesUpsert"

\* C12: handling a message event whose key.fromMe is true sends no contact
\* upsert that carries a name field and leaves the name of every contact the
\* CRM holds as it was, whether the contact lookup found the contact or not.
C12_AgentMessageKeepsName ==
  [][(IsMessagesUpsert(last') /\ last'.payload.fromMe)
       => /\ \A i \in 1..Len(UpsertsOf(calls')) : UpsertsOf(calls')[i].name = Undef
          /\ \A c \in crmContacts :
               \E d \in crmContacts' :
                 d.locationId = c.locationId /\ d.phone = c.phone /\ d.name = c.name]_vars

C12_Witness ==
  /\ IsMessagesUpsert(last)
  /\ last.payload.fromMe
  /\ last.lookup = "absent"
  /\ Len(UpsertsOf(calls)) = 1
  /\ UpsertsOf(calls)[1].ok
  /\ \E c \in crmContacts : c.phone = <<"+", "7">> /\ c.name = "n1"

IndexesOf(cs, api) == {i \in 1..Len(cs) : cs[i].api = api}

\* C13: for a customer's message event (fromMe false) with a pushName on a
\* known instance X from a phone the tenant has no contact for, the handler
\* upserts a contact of the owning tenant with the pushName as name and the
\* tag of X before any message is posted; when the upsert succeeds and the
\* CRM accepts the message, exactly one message is added, inbound and for
\* the upserted contact; when the upsert fails no message is posted.
C13_ContactBeforeInboundPost ==
  [][(/\ IsMessagesUpsert(last')
      /\ ~last'.payload.fromMe
      /\ last'.payload.pushName # Undef
      /\ last'.payload.remoteJid # <<>>
      /\ getInstance(instances, last'.payload.instance) # {}
      /\ contactsByPhone(crmContacts,
                         TheInstance(instances, last'.payload.instance).userId,
                         splitAt(last'.payload.remoteJid)) = {})
       => LET X == TheInstance(instances, last'.payload.instance)
              upserts == UpsertsOf(calls')
              accepted == SelectSeq(PostsOf(calls'), LAMBDA c : c.ok)
          IN /\ Len(upserts) = 1
             /\ upserts[1].target = X.userId
             /\ upserts[1].name = last'.payload.pushName
             /\ upserts[1].tag = <<"whatsapp-instance", X.idInstance>>
             /\ \A i \in IndexesOf(calls', "crm.upsertContact"),
                   j \in IndexesOf(calls', "crm.postMessage") \cup
                         IndexesOf(calls', "crm.postConversation") : i < j
             /\ ~upserts[1].ok => /\ PostsOf(calls') = <<>>
                                  /\ crmMessages' = crmMessages
             /\ Len(accepted) <= 1
             /\ last'.outcome = "posted" =>
                  /\ Len(accepted) = 1
                  /\ accepted[1].arg = upserts[1].arg
                  /\ Len(crmMessages') = Len(crmMessages) + 1
                  /\ crmMessages'[Len(crmMessages')].direction = "inbound"
                  /\ crmMessages'[Len(crmMessages')].contact = upserts[1].arg
                  /\ crmMessages'[Len(crmMessages')].locationId = X.userId]_vars

C13_Witness ==
  /\ IsMessagesUpsert(last)
  /\ ~last.payload.fromMe
  /\ last.payload.pushName = "n1"
  /\ last.outcome = "posted"
  /\ Len(calls) = 3
  /\ calls[2].api = "crm.upsertContact" /\ calls[2].name = "n1"
  /\ calls[3].api = "crm.postMessage" /\ calls[3].ok
  /\ Len(crmMessages) = 1
  /\ crmMessages[1].direction = "inbound"
  /\ crmContacts = {[locationId |-> "L1", phone |-> <<"+", "7">>, name |-> "n1"]}

C15_AbsentAfterBothForms ==
  (IsMessagesUpsert(last) /\ last.payload.fromMe /\ last.lookup = "absent")
    => LET digits == normalizeDigits(splitAt(last.payload.remoteJid))
           queried == {LookupsOf(calls)[i].arg : i \in 1..Len(LookupsOf(calls))}
       IN queried = {<<"+">> \o digits, digits}

IsWebhook(l) == l.op \in {"evolutionWebhook", "ghlWebhook", "messagesUpsert"}

C17_NoFailureEscapes ==
  IsWebhook(last) => last.outcome # "escaped"

C19_GuardAdmitsOnlyTokenHolder ==
  [][(last'.op \in {"evolutionWebhook", "webhookRejected"})
       => LET entitled ==
                \E r \in instances :
                  /\ r.idInstance = last'.payload.instance
                  /\ last'.authorization = [scheme |-> "Bearer", token |-> r.apiTokenInstance]
          IN /\ (last'.op = "evolutionWebhook") <=> entitled
             /\ ~entitled => /\ last'.outcome = "Unauthorized"
                             /\ instances' = instances
                             /\ calls' = <<>>]_vars

C19_Witness ==
  /\ last.op = "webhookRejected"
  /\ last.outcome = "Unauthorized"
  /\ last.payload.state = "close"
  /\ last.authorization.scheme = "Bearer"
  /\ \E r \in instances :
       /\ r.idInstance = last.payload.instance
       /\ r.apiTokenInstance # last.authorization.token
       /\ r.state = "authorized"

IsAdminById(l) == l.op \in {"deleteInstance", "logoutInstance", "updateInstance", "getQrCode"}

\* C20: a delete, logout, rename or QR request of tenant L for an instance
\* that does not exist or is owned by another tenant is rejected and changes
\* no record and calls no gateway; a listing of tenant L returns and
\* refreshes only instances owned by L and leaves every other record as it
\* was.
C20_TenantIsolation ==
  [][/\ (IsAdminById(last')
          /\ ~\E r \in instances : r.id = last'.id /\ r.userId = last'.locationId)
        => /\ last'.outcome \in {"Unauthorized", "FORBIDDEN"}
           /\ instances' = instances
           /\ calls' = <<>>
     /\ IsAdminById(last')
        => \A r \in instances : r.userId # last'.locationId => r \in instances'
     /\ last'.op = "getInstances"
        => LET owned == {r.idInstance : r \in {o \in instances : o.userId = last'.locationId}}
           IN /\ {x.idInstance : x \in last'.response} \subseteq owned
              /\ last'.attempted \subseteq owned
              /\ \A r \in instances : r.userId # last'.locationId => r \in instances']_vars

C20_Witness ==
  /\ last.op = "updateInstance"
  /\ last.outcome = "FORBIDDEN"
  /\ last.customName = "c1"
  /\ calls = <<>>
  /\ \E r \in instances :
       r.id = last.id /\ r.userId # last.locationId /\ r.customName = "c0"
  /\ \E r \in instances : r.userId = last.locationId /\ r.customName = "c1"

\* C21: no two records of the registry have the same idInstance, whatever
\* creates and deletes the tenants have made; a create for an idInstance
\* that is registered, by the same or by another tenant, adds no record.
C21_IdInstanceUnique ==
  /\ \A r1, r2 \in instances : r1.idInstance = r2.idInstance => r1 = r2
  /\ (last.op = "createInstance" /\ last.outcome # "created")
       => Cardinality(getInstance(instances, last.idInstance)) <= 1

C21_Witness ==
  /\ last.op = "createInstance"
  /\ last.outcome = "BAD_REQUEST"
  /\ last.locationId = "L2"
  /\ nextId = 3
  /\ Cardinality(instances) = 1
  /\ \E r \in instances : r.idInstance = last.idInstance /\ r.userId = "L1"

GatewayChecksOf(cs) == CallsTo(cs, "gw.connectionState")

\* C22: a record is persisted only after the gateway validated the
\* credential: a create request whose validation answers false, or whose
\* gateway status call fails, gets an error response and leaves the registry
\* as it was, and every create that adds a record made a successful
\* validation call first.
C22_PersistOnlyAfterValidation ==
  [][last'.op = "createInstance"
       => LET checks == GatewayChecksOf(calls')
          IN /\ (\E i \in 1..Len(checks) : ~checks[i].ok)
                  => /\ last'.outcome = "BAD_REQUEST"
                     /\ instances' = instances
             /\ instances' # instances
                  => /\ checks # <<>>
                     /\ calls'[1].api = "gw.connectionState"
                     /\ calls'[1].ok
                     /\ calls'[1].target = last'.idInstance]_vars

C22_Witness ==
  /\ last.op = "createInstance"
  /\ last.outcome = "BAD_REQUEST"
  /\ Len(calls) = 1
  /\ calls[1].api = "gw.connectionState"
  /\ ~calls[1].ok
  /\ getInstance(instances, last.idInstance) = {}
  /\ instances # {}

\* C23: a message event is relayed only through a resolved instance: the
\* instance named by the webhook is used when it is registered, otherwise
\* the one whose gateway id equals data.instanceId, and when neither is
\* registered the event is discarded with no CRM contact call, no CRM
\* message post and no registry write.
C23_RelayOnlyThroughResolvedInstance ==
  [][(IsMessagesUpsert(last') /\ last'.payload.remoteJid # <<>>)
       => LET p == last'.payload
              byName == {r \in instances : r.idInstance = p.instance}
              byId == {r \in instances : p.instanceId # Undef /\ r.instanceGuid = p.instanceId}
              used == IF byName # {} THEN byName ELSE byId
          IN /\ used = {}
               => /\ last'.outcome = "unknownInstance"
                  /\ calls' = <<Acknowledgement>>
                  /\ instances' = instances
                  /\ crmContacts' = crmContacts
                  /\ crmMessages' = crmMessages
             /\ used # {}
               => /\ last'.outcome # "unknownInstance"
                  /\ UpsertsOf(calls') # <<>>
                  /\ \A i \in 1..Len(UpsertsOf(calls')) :
                       \E r \in used : /\ UpsertsOf(calls')[i].target = r.userId
                                       /\ UpsertsOf(calls')[i].tag = TagOf(r.idInstance)]_vars

C23_Witness ==
  /\ IsMessagesUpsert(last)
  /\ last.payload.instance = "i2"
  /\ last.payload.instanceId = "g1"
  /\ last.outcome = "posted"
  /\ getInstance(instances, "i2") = {}
  /\ crmMessages # <<>>
  /\ crmMessages[Len(crmMessages)].locationId = "L1"

\* C24: a gateway webhook without instance identifier, or of an event type
\* other than connection.update and messages.upsert, or a messages.upsert
\* without data.key.remoteJid, has no effect: the registry and the CRM are
\* left as they were and nothing but the acknowledgement is sent.
C24_UnhandledWebhookNoEffect ==
  [][(/\ IsWebhook(last')
      /\ \/ last'.payload.instance = Undef
         \/ last'.payload.event \notin {"connection.update", "messages.upsert"}
         \/ (last'.payload.event = "messages.upsert" /\ last'.payload.remoteJid = <<>>))
       => /\ instances' = instances
          /\ crmContacts' = crmContacts
          /\ crmMessages' = crmMessages
          /\ calls' = <<Acknowledgement>>
          /\ last'.outcome \in {"noInstance", "noHandler", "missingRemoteJid"}]_vars

C24_Witness ==
  /\ IsMessagesUpsert(last)
  /\ last.payload.instance = "i1"
  /\ last.payload.remoteJid = <<>>
  /\ last.payload.pushName = "n1"
  /\ last.outcome = "missingRemoteJid"
  /\ getInstance(instances, "i1") # {}
  /\ crmMessages # <<>>

(***************************************************************************)
(* The message transformer                                                 *)
(***************************************************************************)
\* customer messages of instance i1 whose data.message ranges over Messages
TransformEvents ==
  {[p EXCEPT !.message = m] :
     p \in {q \in ResolveEvents : q.instance = "i1" /\ q.instanceId = Undef},
     m \in Messages}

TransformCreate == CreateInstanceOf({"L1"}, {"i1"}, {"open"})

TransformUpsert == MessagesUpsertOf(TransformEvents, {"empty"}, {"empty"}, {Undef}, {"ok"})

NextTransform == TransformCreate \/ TransformUpsert

SpecTransform == Init /\ [][NextTransform]_vars

\* the body the relay is to carry for data.message m: the conversation when
\* there is one, else the text of the extended text, else the placeholder
bodyOf(m) ==
  IF m.conversation # <<>> THEN trim(m.conversation)
  ELSE IF m.extendedTextMessage.present /\ m.extendedTextMessage.hasText
    THEN trim(m.extendedTextMessage.text)
  ELSE UnsupportedMessageType

\* C25: the transformer returns a body for every message event of a
\* registered instance without throwing: the conversation when present, else
\* the extended-text text, else the placeholder; a missing message and an
\* extendedTextMessage without text included.  (outcome "error": the CRM
\* refused the contact, the transformer was not called.)
C25_TransformerTotal ==
  (IsMessagesUpsert(last) /\ last.payload \in TransformEvents /\ instances # {}
     /\ last.outcome # "error")
    => /\ last.outcome # "typeError"
       /\ last.outcome = "posted"
       /\ crmMessages # <<>>
       /\ crmMessages[Len(crmMessages)].message = bodyOf(last.payload.message)

\* C26: once the gateway has accepted the send, the relay reports 'delivered'
\* and completes successfully whatever becomes of that report (refused by
\* both status endpoints, no provider configured, no CRM client): no error
\* reaches the caller of handlePlatformWebhook, so its catch block reports no
\* 'failed' status.
C26_DeliveredReportBestEffort ==
  (last.op = "ghlWebhook" /\ \E i \in 1..Len(calls) : calls[i].api = "gw.send" /\ calls[i].ok)
    => /\ last.error = "none"
       /\ last.outcome = "relayed"
       /\ ReportsOf(calls, "failed") = <<>>

(***************************************************************************)
(* The registry called directly: each PrismaService method with any key    *)
(***************************************************************************)
RegistryCreate == CreateInstanceOf({"L1"}, IdInstances, {"open"})

RegistryCall(op, idInstance, id, result, error) ==
  [op |-> op, idInstance |-> idInstance, id |-> id, result |-> result, error |-> error]

\* findUnique: the row or null
RegistryGetInstance ==
  \E idInstance \in IdInstances :
    /\ last' = RegistryCall("prisma.getInstance", idInstance, 0,
                            IF getInstance(instances, idInstance) = {} THEN "null" ELSE "row",
                            "none")
    /\ calls' = <<>>
    /\ UNCHANGED <<tasks, gateway, instances, nextId, crmContacts, crmMessages>>

RegistryGetInstanceById ==
  \E id \in RequestIds :
    /\ last' = RegistryCall("prisma.getInstanceById", Undef, id,
                            IF getInstanceById(instances, id) = {} THEN "null" ELSE "row",
                            "none")
    /\ calls' = <<>>
    /\ UNCHANGED <<tasks, gateway, instances, nextId, crmContacts, crmMessages>>

RegistryUpdateState ==
  \E idInstance \in IdInstances, state \in InstanceState :
    LET throws == updateInstanceStateThrows(instances, idInstance, state)
    IN /\ instances' = IF throws THEN instances
                       ELSE updateInstanceState(instances, idInstance, state)
       /\ last' = RegistryCall("prisma.updateInstanceState", idInstance, 0,
                               IF throws THEN "none" ELSE "row",
                               IF throws THEN "NotFound" ELSE "none")
       /\ calls' = <<>>
       /\ UNCHANGED <<tasks, gateway, nextId, crmContacts, crmMessages>>

RegistryUpdateCustomName ==
  \E idInstance \in IdInstances, customName \in CustomNames :
    LET throws == updateInstanceCustomNameThrows(instances, idInstance)
    IN /\ instances' = IF throws THEN instances
                       ELSE updateInstanceCustomName(instances, idInstance, customName)
       /\ last' = RegistryCall("prisma.updateInstanceCustomName", idInstance, 0,
                               IF throws THEN "none" ELSE "row",
                               IF throws THEN "NotFound" ELSE "none")
       /\ calls' = <<>>
       /\ UNCHANGED <<tasks, gateway, nextId, crmContacts, crmMessages>>

RegistrySettings == {EmptySettings, [EmptySettings EXCEPT !.agentUserId = "u1"]}

RegistryUpdateSettings ==
  \E idInstance \in IdInstances, settings \in RegistrySettings :
    LET throws == updateInstanceSettingsThrows(instances, idInstance)
    IN /\ instances' = IF throws THEN instances
                       ELSE updateInstanceSettings(instances, idInstance, settings)
       /\ last' = RegistryCall("prisma.updateInstanceSettings", idInstance, 0,
                               IF throws THEN "none" ELSE "row",
                               IF throws THEN "NotFound" ELSE "none")
       /\ calls' = <<>>
       /\ UNCHANGED <<tasks, gateway, nextId, crmContacts, crmMessages>>

RegistryRemoveById ==
  \E id \in RequestIds :
    LET throws == removeInstanceByIdThrows(instances, id)
    IN /\ instances' = IF throws THEN instances ELSE removeInstanceById(instances, id)
       /\ last' = RegistryCall("prisma.removeInstanceById", Undef, id,
                               IF throws THEN "none" ELSE "row",
                               IF throws THEN "NotFound" ELSE "none")
       /\ calls' = <<>>
       /\ UNCHANGED <<tasks, gateway, nextId, crmContacts, crmMessages>>

NextRegistry ==
  \/ RegistryCreate
  \/ RegistryGetInstance
  \/ RegistryGetInstanceById
  \/ RegistryUpdateState
  \/ RegistryUpdateCustomName
  \/ RegistryUpdateSettings
  \/ RegistryRemoveById

SpecRegistry == Init /\ [][NextRegistry]_vars

RegistryGets == {"prisma.getInstance", "prisma.getInstanceById"}

RegistryWrites ==
  {"prisma.updateInstanceState", "prisma.updateInstanceCustomName",
   "prisma.updateInstanceSettings", "prisma.removeInstanceById"}

\* the key of registry call l names no record of insts
UnknownKey(insts, l) ==
  IF l.op \in {"prisma.getInstanceById", "prisma.removeInstanceById"}
    THEN getInstanceById(insts, l.id) = {}
    ELSE getInstance(insts, l.idInstance) = {}

\* C27: a registry get by external id or by surrogate id for an unknown key
\* returns the absence value and raises nothing; an update of state, custom
\* name or settings, or a delete, for an unknown key fails with a not-found
\* error; in each case the store is left exactly as it was.
C27_RegistryErrorContract ==
  [][(last'.op \in RegistryGets \cup RegistryWrites /\ UnknownKey(instances, last'))
       => /\ instances' = instances
          /\ last'.op \in RegistryGets => (last'.result = "null" /\ last'.error = "none")
          /\ last'.op \in RegistryWrites => (last'.result = "none" /\ last'.error = "NotFound")]_vars

C27_Witness ==
  /\ last.op = "prisma.updateInstanceCustomName"
  /\ last.error = "NotFound"
  /\ last.idInstance = "i2"
  /\ getInstance(instances, "i2") = {}
  /\ \E r \in instances : r.idInstance = "i1" /\ r.customName = "c1"

(***************************************************************************)
(* Concurrent handlers.  A handler gives up control at each await of a      *)
(* database or HTTP call; between two awaits it runs without interruption.  *)
(* One connection.update handler and one messages.upsert handler run at a   *)
(* time, each in the steps below, interleaved in any order.                 *)
(***************************************************************************)
ConcurrentPayloads ==
  [event : {"connection.update"}, instance : {"i1"}, hasData : {TRUE},
   state : {"open", "close", "refused"}, wuid : Wuids, profilePictureUrl : {Undef}]

ConcurrentEvents ==
  {p \in MessageEvents : /\ p.instance = "i1" /\ p.remoteJid # <<>> /\ p.keyId = "k1"
                         /\ p.pushName = Undef /\ p.status = Undef
                         /\ (p.fromMe => p.sender # <<>>)}

Step(task, pc) == [op |-> "step", task |-> task, pc |-> pc]

\* the settings of the final write of the connection.update branch
newSettingsOf(updated, p) ==
  LET digits == normalizeDigits(p.wuid)
      s1 == IF digits # <<>> THEN [updated.settings EXCEPT !.agentPhone = digits]
            ELSE updated.settings
  IN IF p.profilePictureUrl # Undef THEN [s1 EXCEPT !.agentAvatarUrl = p.profilePictureUrl]
     ELSE s1

\* the request up to and including  await prisma.updateInstanceState(...)
ConnectionReceive ==
  /\ tasks.connection.pc \in {"idle", "done"}
  /\ \E p \in ConcurrentPayloads :
       LET mapped == mappedStatus(p.state)
           writes == mapped # Undef /\ ~updateInstanceStateThrows(instances, p.instance, mapped)
           i1 == IF writes THEN updateInstanceState(instances, p.instance, mapped)
                 ELSE instances
           needUpdateSettings == normalizeDigits(p.wuid) # <<>> \/ p.profilePictureUrl # Undef
       IN /\ instances' = i1
          /\ tasks' = [tasks EXCEPT !.connection =
                         [pc |-> IF ~writes THEN "done"
                                 ELSE IF normalizeDigits(p.wuid) # <<>> THEN "mapAgent"
                                 ELSE IF needUpdateSettings THEN "writeSettings"
                                 ELSE "done",
                          payload |-> p,
                          updated |-> IF writes THEN getInstance(i1, p.instance) ELSE {},
                          agentUserId |-> Undef]]
          /\ calls' = <<Acknowledgement>>
          /\ last' = Step("connection", "receive")
          /\ UNCHANGED <<nextId, crmContacts, crmMessages, gateway>>

\* await tryMapAgentUserByPhone(updated, digits)
ConnectionMapAgent ==
  /\ tasks.connection.pc = "mapAgent"
  /\ \E agentUserId \in GhlUserIds \cup {Undef} :
       LET updated == CHOOSE r \in tasks.connection.updated : TRUE
           digits == normalizeDigits(tasks.connection.payload.wuid)
       IN /\ instances' = tryMapAgentUserByPhone(instances, updated, digits, agentUserId)
          /\ tasks' = [tasks EXCEPT !.connection.pc = "writeSettings",
                                    !.connection.agentUserId = agentUserId]
          /\ calls' = <<Call("crm.listUsers", updated.userId, digits, agentUserId # Undef)>>
          /\ last' = Step("connection", "mapAgent")
          /\ UNCHANGED <<nextId, crmContacts, crmMessages, gateway>>

\* try { await prisma.updateInstanceSettings(instanceName, newSettings) } catch {}
ConnectionWriteSettings ==
  /\ tasks.connection.pc = "writeSettings"
  /\ LET updated == CHOOSE r \in tasks.connection.updated : TRUE
         p == tasks.connection.payload
     IN /\ instances' = IF updateInstanceSettingsThrows(instances, p.instance) THEN instances
                        ELSE updateInstanceSettings(instances, p.instance,
                                                    newSettingsOf(updated, p))
        /\ tasks' = [tasks EXCEPT !.connection.pc = "done"]
        /\ calls' = <<>>
        /\ last' = Step("connection", "writeSettings")
        /\ UNCHANGED <<nextId, crmContacts, crmMessages, gateway>>

\* the request up to and including the instance lookup
MessageReceive ==
  /\ tasks.message.pc \in {"idle", "done"}
  /\ Len(crmMessages) < MaxPosts
  /\ \E p \in ConcurrentEvents :
       LET found == resolveInstance(instances, p)
       IN /\ tasks' = [tasks EXCEPT !.message =
                         [pc |-> IF found = {} THEN "done" ELSE "contact",
                          payload |-> p, instance |-> found, agentUserId |-> Undef]]
          /\ calls' = <<Acknowledgement>>
          /\ last' = Step("message", "receive")
          /\ UNCHANGED <<instances, nextId, crmContacts, crmMessages, gateway>>

\* the contact lookup of an agent's message and the contact upsert
MessageContact ==
  /\ tasks.message.pc = "contact"
  /\ \E upsertOk \in BOOLEAN :
       LET p == tasks.message.payload
           instance == CHOOSE r \in tasks.message.instance : TRUE
           contactPhone == splitAt(p.remoteJid)
           lookup == IF p.fromMe
                       THEN getGhlContactByPhone(instance.userId, contactPhone, "empty", "empty")
                       ELSE [calls |-> <<>>, result |-> "absent"]
           name == IF p.fromMe \/ p.pushName = Undef THEN "WhatsApp User" ELSE p.pushName
           preserve == resolveContactPreservesName(p)
           agentDigits == IF normalizeDigits(splitAt(p.sender)) # <<>>
                            THEN normalizeDigits(splitAt(p.sender))
                            ELSE normalizeDigits(instance.settings.agentPhone)
       IN /\ crmContacts' =
               IF upsertOk
                 THEN findOrCreateGhlContactForInstance(crmContacts, instance, contactPhone,
                                                        name, preserve)
                 ELSE crmContacts
          /\ tasks' = [tasks EXCEPT !.message.pc =
                         IF ~upsertOk \/ toPlatformMessage(p).throws THEN "done"
                         ELSE IF p.fromMe /\ agentDigits # <<>> THEN "mapAgent"
                         ELSE "post"]
          /\ calls' = lookup.calls
                        \o <<UpsertCall(instance, contactPhone, name, preserve, upsertOk)>>
          /\ last' = Step("message", "contact")
          /\ UNCHANGED <<instances, nextId, crmMessages, gateway>>

\* a settings write that saves the record the handler holds
messageWriteSettingsWholeRecord(insts, instance, settings) ==
  {IF r.idInstance = instance.idInstance THEN [instance EXCEPT !.settings = settings] ELSE r :
     r \in insts}

\* try { await prisma.updateInstanceSettings(instance.instanceName, newSettings) } catch {}
messageWriteSettings(insts, instance, settings) ==
  IF updateInstanceSettingsThrows(insts, instance.idInstance) THEN insts
  ELSE updateInstanceSettings(insts, instance.idInstance, settings)

\* findGhlUserByPhone and the caching of the mapping in the settings
MessageMapAgent ==
  /\ tasks.message.pc = "mapAgent"
  /\ \E agentUserId \in GhlUserIds \cup {Undef} :
       LET p == tasks.message.payload
           instance == CHOOSE r \in tasks.message.instance : TRUE
           agentDigits == IF normalizeDigits(splitAt(p.sender)) # <<>>
                            THEN normalizeDigits(splitAt(p.sender))
                            ELSE normalizeDigits(instance.settings.agentPhone)
       IN /\ instances' =
               IF agentUserId = Undef THEN instances
               ELSE messageWriteSettings(instances, instance,
                      [instance.settings EXCEPT !.agentUserId = agentUserId,
                                                !.agentPhone = agentDigits])
          /\ tasks' = [tasks EXCEPT !.message.pc = "post",
                                    !.message.agentUserId = agentUserId]
          /\ calls' = <<Call("crm.searchUsers", instance.userId, agentDigits,
                             agentUserId # Undef)>>
          /\ last' = Step("message", "mapAgent")
          /\ UNCHANGED <<nextId, crmContacts, crmMessages, gateway>>

\* await this.postInboundMessageToGhl(instance.locationId, transformedMsg)
MessagePost ==
  /\ tasks.message.pc = "post"
  /\ \E post \in {"ok", "fail"} :
       LET p == tasks.message.payload
           instance == CHOOSE r \in tasks.message.instance : TRUE
           message == [locationId |-> instance.userId,
                       contact |-> formattedPhone(splitAt(p.remoteJid)),
                       direction |-> relayedDirection(p),
                       message |-> toPlatformMessage(p).message,
                       userId |-> IF tasks.message.agentUserId # Undef
                                    THEN tasks.message.agentUserId
                                  ELSE IF p.fromMe THEN instance.settings.agentUserId
                                  ELSE Undef,
                       source |-> <<p.instance, p.keyId>>]
           posted == postInboundMessageToGhl(crmMessages, message, post)
       IN /\ crmMessages' = posted.messages
          /\ tasks' = [tasks EXCEPT !.message.pc = "done"]
          /\ calls' = posted.calls
          /\ last' = Step("message", "post")
          /\ UNCHANGED <<instances, nextId, crmContacts, gateway>>

ConcurrentCreate == CreateInstanceOf({"L1"}, {"i1"}, {"close"})

NextConcurrent ==
  \/ ConcurrentCreate
  \/ ConnectionReceive
  \/ ConnectionMapAgent
  \/ ConnectionWriteSettings
  \/ MessageReceive
  \/ MessageContact
  \/ MessageMapAgent
  \/ MessagePost

SpecConcurrent == Init /\ [][NextConcurrent]_vars

StatesOf(insts) == {<<r.idInstance, r.state>> : r \in insts}

\* C28: a connection.update handler and a messages.upsert handler of one
\* instance interleaved in any order: no step of the message handler changes
\* a stored state, the connection handler's steps after its state write do
\* not change it either, and when both handlers have finished the stored
\* state is the one the connection update writes when it runs alone (the
\* mapping of its state).
C28_HandlersDoNotInterfere ==
  [][/\ (last'.op = "step" /\ last'.task = "message") => StatesOf(instances') = StatesOf(instances)
     /\ (last'.op = "step" /\ last'.task = "connection" /\ last'.pc # "receive")
          => StatesOf(instances') = StatesOf(instances)
     /\ (/\ last'.op = "step"
         /\ tasks'.connection.pc = "done" /\ tasks'.message.pc = "done"
         /\ tasks'.connection.updated # {}
         /\ getInstance(instances', "i1") # {})
          => StateOf(instances', "i1") = mappedStatus(tasks'.connection.payload.state)]_vars

\* the message handler caches the agent mapping between the connection
\* handler's state write and the end of both handlers
C28_Witness ==
  /\ last.op = "step" /\ last.task = "message" /\ last.pc = "post"
  /\ tasks.connection.pc = "done" /\ tasks.message.pc = "done"
  /\ tasks.connection.payload.state = "open"
  /\ tasks.message.agentUserId = "u1"
  /\ \E r \in tasks.message.instance : r.state = "notAuthorized"
  /\ StateOf(instances, "i1") = "authorized"
  /\ TheInstance(instances, "i1").settings.agentUserId = "u1"
  /\ Len(crmMessages) = 1

(***************************************************************************)
(* A sequence of connection.update webhooks of one instance, processed one  *)
(* after the other as delivered.  last.processed is the sequence of their   *)
(* data.state values, last.before the stored state before the first.        *)
(***************************************************************************)
SnapshotPayloads ==
  {p \in ConnectionPayloads : p.instance = "i1" /\ p.hasData}

SnapshotCreate ==
  /\ instances = {}
  /\ CreateInstanceOf({"L1"}, {"i1"}, {"open", "connecting", "close"})

SnapshotWebhook ==
  /\ instances # {}
  /\ LET processed == IF last.op = "evolutionWebhook" THEN last.processed ELSE <<>>
         before == IF last.op = "evolutionWebhook" THEN last.before
                   ELSE TheInstance(instances, "i1").state
     IN /\ Len(processed) < MaxEvents
        /\ \E p \in SnapshotPayloads :
             LET r == handleEvolutionWebhook(instances, p, Undef)
             IN /\ instances' = r.instances
                /\ calls' = acknowledged(r.calls)
                /\ last' = [op |-> "evolutionWebhook", payload |-> p, outcome |-> r.outcome,
                            redelivery |-> (last.op = "evolutionWebhook" /\ last.payload = p),
                            processed |-> Append(processed, p.state), before |-> before]
                /\ UNCHANGED <<tasks, gateway, nextId, crmContacts, crmMessages>>

NextSnapshot == SnapshotCreate \/ SnapshotWebhook

SpecSnapshot == Init /\ [][NextSnapshot]_vars

\* the events of a processed sequence that carried a recognised state
RecognisedOf(processed) == SelectSeq(processed, LAMBDA s : mappedStatus(s) # Undef)

\* C29: after any sequence of connection.update webhooks of one instance has
\* been processed, the stored state is the mapping of the last event that
\* carried a recognised state, whatever the events before it and the state
\* before the sequence were; a sequence without such an event leaves the
\* state as it was.
C29_AbsoluteSnapshots ==
  IsConnectionUpdate(last)
    => LET recognised == RecognisedOf(last.processed)
       IN StateOf(instances, "i1") =
            IF recognised = <<>> THEN last.before
            ELSE mappedStatus(recognised[Len(recognised)])

\* starting before the sequence, then open, connecting, and an unknown state
C29_Witness ==
  /\ IsConnectionUpdate(last)
  /\ last.before = "starting"
  /\ last.processed = <<"open", "connecting", "refused">>
  /\ StateOf(instances, "i1") = "starting"

(***************************************************************************)
(* The listing's refresh against the connection.update webhooks.  The      *)
(* gateway changes an instance's connection state and sends a webhook for  *)
(* each change; the webhooks are handled one at a time in the order sent.  *)
(* The listing reads the caller's records, asks the gateway for the state  *)
(* and, when the answer arrives, compares it with the record it read and   *)
(* writes it.                                                              *)
(***************************************************************************)
\* the state member of the status answer: the gateway's word for the
\* connection state, or the registry's word for it
PollForms == {"gateway", "registry"}

pollAnswer(state, form) == IF form = "registry" THEN mappedStatus(state) ELSE state

ReconcileCreate ==
  /\ instances = {}
  /\ CreateInstanceOf({"L1"}, {"i1"}, {"close"})

GatewayChange ==
  /\ instances # {}
  /\ gateway.changes < MaxChanges
  /\ \E s \in GatewayStates \ {gateway.state["i1"]} :
       /\ gateway' = [state |-> [gateway.state EXCEPT !["i1"] = s],
                      signals |-> Append(gateway.signals, s),
                      changes |-> gateway.changes + 1]
       /\ last' = [op |-> "gatewayChange", idInstance |-> "i1", state |-> s]
       /\ calls' = <<>>
       /\ UNCHANGED <<instances, nextId, crmContacts, crmMessages, tasks>>

\* POST /webhooks/evolution for the oldest webhook on its way
ReconcileWebhook ==
  /\ gateway.signals # <<>>
  /\ LET p == [event |-> "connection.update", instance |-> "i1", hasData |-> TRUE,
               state |-> Head(gateway.signals), wuid |-> <<>>, profilePictureUrl |-> Undef]
         r == handleEvolutionWebhook(instances, p, Undef)
     IN /\ instances' = r.instances
        /\ calls' = acknowledged(r.calls)
        /\ last' = [op |-> "evolutionWebhook", payload |-> p, outcome |-> r.outcome,
                    redelivery |-> FALSE]
        /\ gateway' = [gateway EXCEPT !.signals = Tail(@)]
        /\ UNCHANGED <<nextId, crmContacts, crmMessages, tasks>>

\* const instances = await this.prisma.getInstancesByUserId(locationId)
ListingRead ==
  /\ tasks.listing.pc \in {"idle", "done"}
  /\ LET owned == getInstancesByUserId(instances, "L1")
     IN /\ tasks' = [tasks EXCEPT !.listing =
                       [pc |-> IF owned = {} THEN "done" ELSE "poll", locationId |-> "L1",
                        instances |-> owned, polled |-> Undef]]
        /\ last' = Step("listing", "read")
        /\ calls' = <<>>
        /\ UNCHANGED <<instances, nextId, crmContacts, crmMessages, gateway>>

\* the gateway answers GET /instance/connectionState with its state of now
ListingPoll ==
  /\ tasks.listing.pc = "poll"
  /\ \E form \in PollForms :
       /\ tasks' = [tasks EXCEPT !.listing.pc = "write",
                                 !.listing.polled = pollAnswer(gateway.state["i1"], form)]
       /\ last' = Step("listing", "poll")
       /\ calls' = <<Call("gw.status", "i1", <<>>, TRUE)>>
       /\ UNCHANGED <<instances, nextId, crmContacts, crmMessages, gateway>>

\* if (state && state !== instance.state) await this.prisma.updateInstanceState(...)
ListingWrite ==
  /\ tasks.listing.pc = "write"
  /\ LET instance == CHOOSE r \in tasks.listing.instances : TRUE
         refreshed == refreshOne(instance, tasks.listing.polled)
     IN /\ instances' = IF refreshed.written
                          THEN updateInstanceState(instances, instance.idInstance,
                                                   tasks.listing.polled)
                          ELSE instances
        /\ tasks' = [tasks EXCEPT !.listing.pc = "done"]
        /\ last' = Step("listing", "write")
        /\ calls' = <<>>
        /\ UNCHANGED <<nextId, crmContacts, crmMessages, gateway>>

NextReconcile ==
  \/ ReconcileCreate
  \/ GatewayChange
  \/ ReconcileWebhook
  \/ ListingRead
  \/ ListingPoll
  \/ ListingWrite

SpecReconcile == Init /\ [][NextReconcile]_vars

C31_QrStateOnlyOnIssuance ==
  [][last'.op = "getQrCode"
       => IF last'.outcome \in {"qr", "code"}
            THEN \E r \in getInstanceById(instances', last'.id) : r.state = "qr_code"
            ELSE instances' = instances]_vars

\* C32: every gateway send made for a CRM webhook of location L goes through
\* an instance whose owner is L, whether the instance was named by the
\* contact's whatsapp-instance tag or taken as the location's first instance.
C32_RelayWithinTenant ==
  last.op = "ghlWebhook"
    => \A i \in 1..Len(calls) :
         calls[i].api = "gw.send"
           => \E r \in getInstance(instances, calls[i].target) : r.userId = last.locationId

(***************************************************************************)
(* Posting one relayed message under every answer of the CRM                *)
(***************************************************************************)
PostAnswers ==
  {"ok", "conversationRetry", "conversationRefused", "retryFails", "variantsFail", "fail",
   "noClient"} \cup {VariantAnswers[k] : k \in 1..Len(PayloadVariants)}

PostEvents ==
  {p \in MessageEvents : p.instance = "i1" /\ p.remoteJid # <<>> /\ ~p.fromMe
                         /\ p.status = Undef}

PostCreate == CreateInstanceOf({"L1"}, {"i1"}, {"open"})

PostUpsert == MessagesUpsertOf(PostEvents, {"empty"}, {"empty"}, {Undef}, PostAnswers)

NextPost == PostCreate \/ PostUpsert

SpecPost == Init /\ [][NextPost]_vars

\* C33: the posting of one relayed message makes at most one create attempt
\* plus either one retry after creating a conversation or the fixed list of
\* payload variants, makes no attempt after an accepted one, adds at most one
\* CRM message per handled webhook, and ends in an IntegrationError when
\* every attempt was refused.
C33_BoundedPostAttempts ==
  [][IsMessagesUpsert(last')
       => LET posts == PostsOf(calls')
              convos == CallsTo(calls', "crm.postConversation")
              accepted == posts # <<>> /\ posts[Len(posts)].ok
          IN /\ Len(posts) <= 1 + Len(PayloadVariants)
             /\ Len(convos) <= 1
             /\ convos # <<>> => Len(posts) <= 2
             /\ \A i \in 1..(Len(posts) - 1) : ~posts[i].ok
             /\ Len(crmMessages') = Len(crmMessages) + (IF accepted THEN 1 ELSE 0)
             /\ (posts # <<>> /\ ~accepted)
                  => (last'.outcome = "error" /\ last'.error = "IntegrationError")]_vars

\* the third payload variant is the first the CRM accepts
C33_Witness ==
  /\ IsMessagesUpsert(last)
  /\ last.outcome = "posted"
  /\ Len(PostsOf(calls)) = 4
  /\ PostsOf(calls)[4].ok /\ PostsOf(calls)[4].variant = "noProvider"
  /\ Len(crmMessages) = 1

\* C34: a CRM message the gateway accepted, at the first or at the second
\* attempt, is never reported to the CRM as 'failed', also when the
\* 'delivered' report for it fails.
C34_FailedOnlyIfNotSent ==
  [][(last'.op = "ghlWebhook" /\ \E i \in 1..Len(calls') : calls'[i].api = "gw.send" /\ calls'[i].ok)
       => ReportsOf(calls', "failed") = <<>>]_vars

\* C35: when a connection.update webhook of a known instance carries a wuid
\* whose digits match a CRM user with a valid id, the instance's settings
\* hold that agentUserId once the handler has finished.
C35_AgentMappingRetained ==
  [][(IsConnectionUpdate(last') /\ last'.outcome = "updated"
        /\ \E i \in 1..Len(calls') : calls'[i].api = "crm.listUsers" /\ calls'[i].ok)
       => \E r \in getInstance(instances', last'.payload.instance) :
            r.settings.agentUserId \in GhlUserIds]_vars

\* C36: a logout request of the owner whose gateway call succeeds leaves the
\* stored state of the instance at 'notAuthorized' and nothing else changed;
\* one whose gateway call fails returns an error and leaves the registry as
\* it was.
C36_LogoutAtomic ==
  [][(last'.op = "logoutInstance" /\ \E i \in 1..Len(calls') : calls'[i].api = "gw.logout")
       => IF \E i \in 1..Len(calls') : calls'[i].api = "gw.logout" /\ calls'[i].ok
            THEN /\ last'.outcome = "ok"
                 /\ \E r \in getInstanceById(instances, last'.id) :
                      instances' = (instances \ {r}) \cup {[r EXCEPT !.state = "notAuthorized"]}
            ELSE /\ last'.outcome = "error"
                 /\ instances' = instances]_vars

C36_Witness ==
  /\ last.op = "logoutInstance"
  /\ last.outcome = "error"
  /\ calls = <<Call("gw.logout", "i1", <<>>, FALSE)>>
  /\ \E r \in getInstanceById(instances, last.id) :
       r.idInstance = "i1" /\ r.state = "authorized" /\ r.userId = last.locationId

(***************************************************************************)
(* Webhooks that are late for a deleted instance.  The delete request runs  *)
(* between any two steps of the connection.update and messages.upsert       *)
(* handlers, and webhooks keep arriving for the identifier after it.        *)
(***************************************************************************)
LateCreate == CreateInstanceOf({"L1"}, IdInstances, {"close"})

\* the owner's delete request for the instance of the webhooks, accepted
\* by the gateway
LateDelete ==
  /\ getInstance(instances, "i1") # {}
  /\ DeleteInstance
  /\ last'.locationId = "L1"
  /\ last'.gatewayOk
  /\ getInstance(instances', "i1") = {}

\* a connection.update with a recognised state
LateConnectionReceive ==
  /\ ConnectionReceive
  /\ tasks'.connection.payload.state = "open"

\* a messages.upsert of a message the agent sent from the phone
LateMessageReceive ==
  /\ MessageReceive
  /\ tasks'.message.payload.fromMe

NextLate ==
  \/ LateCreate
  \/ LateDelete
  \/ LateConnectionReceive
  \/ ConnectionMapAgent
  \/ ConnectionWriteSettings
  \/ LateMessageReceive
  \/ MessageContact
  \/ MessageMapAgent
  \/ MessagePost

SpecLate == Init /\ [][NextLate]_vars

\* C37: no step of a connection.update or messages.upsert handler adds a
\* registry record, whether the instance was deleted before the webhook
\* arrived or while it was being handled, and a connection.update that
\* arrives for an identifier without a record leaves the registry as it is.
C37_DeletionPermanent ==
  [][last'.op = "step"
       => /\ {r.id : r \in instances'} \subseteq {r.id : r \in instances}
          /\ {r.idInstance : r \in instances'} \subseteq {r.idInstance : r \in instances}
          /\ (last'.task = "connection" /\ last'.pc = "receive"
                /\ getInstance(instances, tasks'.connection.payload.instance) = {})
               => instances' = instances]_vars

\* the agent mapping of a connection.update finds its instance deleted
\* since the state write
C37_Witness ==
  /\ last.op = "step" /\ last.task = "connection" /\ last.pc = "mapAgent"
  /\ tasks.connection.agentUserId = "u1"
  /\ tasks.connection.updated # {}
  /\ getInstance(instances, "i1") = {}
  /\ \E r \in instances : r.idInstance = "i2"

====
